---- MODULE Spec2Model ----
(***************************************************************************)
(* A model of the redis-go server: the RESP values and their encoded       *)
(* length, the replica's outbound handshake and replication stream loop,   *)
(* and the master's per-connection loop with promotion to replica, write   *)
(* propagation and the WAIT barrier.                                       *)
(***************************************************************************)
EXTENDS Integers, Sequences, FiniteSets, TLC

VARIABLES
    \* ---- replica side (replication.Client and processReplicationStream) ----
    cl_pc,        \* position of the connectToMaster goroutine
    cl_sent,      \* frames written to the master connection, in order
    cl_rcvd,      \* handshake replies parsed from the master connection
    cl_rdb,       \* how receiveRDB ended ("none" while it has not run)
    cl_offset,    \* Client.offset
    cl_consumed,  \* frames returned by ListenForCommands, in order
    cl_storage,   \* the replica's key space
    cl_dropped,   \* what the handshake's parser had buffered of the master's
                  \* writes when sendPsync replaced it by a new parser
    cl_link,      \* what a read of the master connection reports once the
                  \* bytes that arrived are used up
    \* ---- master side (server.Server and its connection tasks) ----
    m_pc,         \* position of each connection's handleConnection task
    m_cur,        \* the value the task parsed last
    m_resp,       \* the response HandleCommand returned for it
    m_isReplica,  \* handleConnection's local isReplica
    m_idx,        \* propagateCommand's position in server.replicas
    m_count,      \* frames the peers have sent so far
    m_alive,      \* the connection is up; once down, reads return io.EOF
                  \* and writes fail
    m_out,        \* what the master wrote to each connection, in order
    replicas,     \* server.replicas
    rlock,        \* the tasks holding replicasMu.RLock
    storage,      \* the master's key space
    propagation_offset,  \* bytes of propagated commands
    pending_writes,      \* a write was propagated since the last ACK
    last_acked,   \* last_acked_offset of each replica connection
    wait_start,   \* propagation_offset when the task's WAIT began
    wait_need,    \* numreplicas of the task's WAIT
    wait_deadline,\* the deadline of the task's WAIT
    applied,      \* the write commands that succeeded, in the order they ran
    snapshot_at,  \* per connection, how many of them had run when the last
                  \* byte of the first snapshot was written to it
    closes,       \* connections that broke so far
    reset,        \* the connections on which a read fails with an error
                  \* that is not io.EOF
    stop_pc,      \* where Server.Stop is
    accept_pc,    \* where Server.acceptConnections is
    purger_pc,    \* where Storage.cleanupExpired is
    parsing,      \* the tasks that were inside parser.Parse() when the
                  \* shutdown channel was closed
    st_data,      \* Storage.data of the store that is exercised on its own
    st_task,      \* what each caller of that store is doing
    st_last,      \* the last Set or Delete of each key of that store
    xs_entries,   \* the IDs of the entries of one stream, in the order appended
    xs_last,      \* the last XADD on that stream: the ID asked for and the reply
    cd_in,        \* the bytes a reader holds for a resp.Parser
    cd_pc,        \* how far the parser and the encoder have come with them
    cd_val,       \* what Parser.Parse returned
    cd_out,       \* the bytes Encoder.Encode wrote for that value
    xa_key,       \* the Stream stored under the stream key (0: the key is not
                  \* in the map)
    xa_heap,      \* the entries of each Stream there is
    xa_task,      \* where each connection task is in XAddCommand.Execute, and
                  \* its locals
    wire,         \* the Write calls of propagateCommand on each replica's
                  \* connection, in order, when they are followed one by one
    m_piece,      \* how many Write calls of its frame a task has made
    rdb_file,     \* the snapshot file found at start
    rdb_pc,       \* where Server.Start is with it
    rdb_err,      \* the error rdb.LoadFile returned
    len_in,       \* the bytes a Loader's reader holds before readLength
    len_pc,       \* whether readLength has run on them
    len_out,      \* what readLength returned
    peer_sends,   \* the frames each peer may send
    cl_conn,      \* the master's connection that the replica above is the
                  \* peer of ("none": the replica's master is any master)
    propagated,   \* the frames propagateCommand was called with, in order
    clock         \* the wall clock, in milliseconds

clientVars ==
    <<cl_pc, cl_sent, cl_rcvd, cl_rdb, cl_offset, cl_consumed, cl_storage, cl_dropped, cl_link>>

codecVars == <<cd_in, cd_pc, cd_val, cd_out>>

loaderVars == <<rdb_file, rdb_pc, rdb_err, len_in, len_pc, len_out>>

wireVars == <<wire, m_piece>>

xaddVars == <<xa_key, xa_heap, xa_task>>

storeVars == <<st_data, st_task, st_last, xs_entries, xs_last, codecVars>>

masterVars ==
    <<m_pc, m_cur, m_resp, m_isReplica, m_idx, m_count, m_alive, m_out,
      replicas, rlock, storage, propagation_offset, pending_writes, last_acked,
      wait_start, wait_need, wait_deadline, applied, snapshot_at, closes, reset,
      stop_pc, accept_pc, purger_pc, parsing, storeVars, loaderVars, wireVars,
      xaddVars,
      peer_sends, cl_conn, propagated>>

vars == <<clientVars, masterVars, clock>>

-----------------------------------------------------------------------------
(* Bounds of the model *)

\* frames the master sends on the replication stream
MaxStream == 3

-----------------------------------------------------------------------------
(* resp.Value and the encoder *)

SimpleString == "+"
Error == "-"
Integer == ":"
BulkString == "$"
Array == "*"

SimpleStringValue(str) == [t |-> SimpleString, s |-> str, i |-> 0, a |-> <<>>]
ErrorValue(str) == [t |-> Error, s |-> str, i |-> 0, a |-> <<>>]
IntegerValue(n) == [t |-> Integer, s |-> "", i |-> n, a |-> <<>>]
BulkStringValue(str) == [t |-> BulkString, s |-> str, i |-> 0, a |-> <<>>]
ArrayValue(values) == [t |-> Array, s |-> "", i |-> 0, a |-> values]
OK == SimpleStringValue("OK")
Pong == SimpleStringValue("PONG")

\* a command as the array of bulk strings a client sends
Cmd(words) == ArrayValue([k \in 1..Len(words) |-> BulkStringValue(words[k])])

\* the marker the parser and the encoder use for the null bulk string
NullMarker == "\\x00NULL"
NullBulkString == BulkStringValue(NullMarker)

\* number of characters fmt.Sprintf("%d", n) prints
RECURSIVE DecLen(_)
DecLen(n) ==
    IF n < 0 THEN 1 + DecLen(0 - n)
    ELSE IF n < 10 THEN 1 ELSE 1 + DecLen(n \div 10)

\* number of bytes Encoder.Encode writes for a value
RECURSIVE ByteLen(_)
RECURSIVE SumByteLen(_)
SumByteLen(values) ==
    IF values = <<>> THEN 0
    ELSE ByteLen(Head(values)) + SumByteLen(Tail(values))

ByteLen(v) ==
    CASE v.t = SimpleString -> 1 + Len(v.s) + 2
      [] v.t = Error -> 1 + Len(v.s) + 2
      [] v.t = Integer -> 1 + DecLen(v.i) + 2
      [] v.t = BulkString ->
            IF v.s = NullMarker THEN 1 + 2 + 2
            ELSE 1 + DecLen(Len(v.s)) + 2 + Len(v.s) + 2
      [] v.t = Array -> 1 + DecLen(Len(v.a)) + 2 + SumByteLen(v.a)
      [] v.t = "raw" -> Len(v.s) + Len(v.a)

\* Value.GetCommand: the name, or an error for anything that is no command
IsCommand(v) == v.t = Array /\ Len(v.a) > 0 /\ v.a[1].t = BulkString
GetCommand(v) == v.a[1].s

\* Value.GetArgs: the elements after the name, as strings
GetArgs(v) ==
    IF v.t # Array \/ Len(v.a) <= 1 THEN <<>>
    ELSE [k \in 1..(Len(v.a) - 1) |-> v.a[k + 1].s]

\* strings.ToUpper on the names and options the model uses
ToUpper(str) ==
    CASE str = "set" -> "SET"
      [] str = "get" -> "GET"
      [] str = "sett" -> "SETT"
      [] str = "px" -> "PX"
      [] str = "ex" -> "EX"
      [] str = "getack" -> "GETACK"
      [] str = "ack" -> "ACK"
      [] str = "listening-port" -> "LISTENING-PORT"
      [] str = "capa" -> "CAPA"
      [] OTHER -> str

\* strings.ToLower on the command names the model uses
ToLower(str) ==
    CASE str = "SET" -> "set"
      [] str = "GET" -> "get"
      [] str = "PING" -> "ping"
      [] str = "WAIT" -> "wait"
      [] str = "PSYNC" -> "psync"
      [] str = "REPLCONF" -> "replconf"
      [] OTHER -> str

-----------------------------------------------------------------------------
(* resp.Parser and resp.Encoder on bytes.  A byte is a string of one        *)
(* character, a byte string is a sequence of bytes, and in the values of    *)
(* this section Str is a byte string.                                       *)

CR == "\r"
LF == "\n"
NUL == "\\x00"
Digits == <<"0", "1", "2", "3", "4", "5", "6", "7", "8", "9">>
IsDigit(b) == \E d \in 1..10 : Digits[d] = b
DigitOf(b) == (CHOOSE d \in 1..10 : Digits[d] = b) - 1

\* the marker of the null bulk string, "\x00NULL"
NullMarkerBytes == <<NUL, "N", "U", "L", "L">>

\* the errors of a read, and those Parse makes itself
EOF == "EOF"
ErrUnexpectedEOF == "unexpected EOF"
ErrUnknownType == "unknown RESP type"
ErrInvalidInteger == "invalid integer"
ErrBulkLength == "invalid bulk string length"
ErrArrayCount == "invalid array count"

Value(type, str, n, values) == [t |-> type, s |-> str, i |-> n, a |-> values]
NoValue == Value("", <<>>, 0, <<>>)
Failed(err, rest) == [err |-> err, v |-> NoValue, rest |-> rest]
Returned(v, rest) == [err |-> "", v |-> v, rest |-> rest]

\* strconv.Atoi: an optional sign and one or more decimal digits
RECURSIVE DigitsValue(_, _)
DigitsValue(bytes, acc) ==
    IF bytes = <<>> THEN acc
    ELSE DigitsValue(Tail(bytes), 10 * acc + DigitOf(Head(bytes)))

Atoi(bytes) ==
    LET signed == bytes # <<>> /\ Head(bytes) \in {"+", "-"}
        digits == IF signed THEN Tail(bytes) ELSE bytes
        ok == digits # <<>> /\ \A k \in 1..Len(digits) : IsDigit(digits[k])
        n == IF ok THEN DigitsValue(digits, 0) ELSE 0
    IN [ok |-> ok, n |-> IF signed /\ Head(bytes) = "-" THEN 0 - n ELSE n]

\* fmt.Sprintf("%d", n)
RECURSIVE SprintNat(_)
SprintNat(n) ==
    IF n < 10 THEN <<Digits[n + 1]>>
    ELSE Append(SprintNat(n \div 10), Digits[(n % 10) + 1])

SprintInt(n) == IF n < 0 THEN <<"-">> \o SprintNat(0 - n) ELSE SprintNat(n)

\* Parser.readLine: ReadString('\n'), which ends with io.EOF when the bytes
\* end before a line feed, and strings.TrimSuffix(line, "\r\n")
readLine(bytes) ==
    IF \A k \in 1..Len(bytes) : bytes[k] # LF
    THEN [err |-> EOF, line |-> <<>>, rest |-> <<>>]
    ELSE LET p == CHOOSE k \in 1..Len(bytes) :
                     bytes[k] = LF /\ \A j \in 1..(k - 1) : bytes[j] # LF
             line == SubSeq(bytes, 1, p)
         IN [err |-> "",
             line |-> IF p >= 2 /\ line[p - 1] = CR
                      THEN SubSeq(line, 1, p - 2) ELSE line,
             rest |-> SubSeq(bytes, p + 1, Len(bytes))]

parseSimpleString(bytes) ==
    LET l == readLine(bytes) IN
      IF l.err # "" THEN Failed(l.err, l.rest)
      ELSE Returned(Value(SimpleString, l.line, 0, <<>>), l.rest)

parseError(bytes) ==
    LET l == readLine(bytes) IN
      IF l.err # "" THEN Failed(l.err, l.rest)
      ELSE Returned(Value(Error, l.line, 0, <<>>), l.rest)

parseInteger(bytes) ==
    LET l == readLine(bytes)
        n == Atoi(l.line)
    IN IF l.err # "" THEN Failed(l.err, l.rest)
       ELSE IF ~n.ok THEN Failed(ErrInvalidInteger, l.rest)
       ELSE Returned(Value(Integer, <<>>, n.n, <<>>), l.rest)

\* io.ReadFull of length+2 bytes: io.EOF when there is none, ErrUnexpectedEOF
\* when there are too few
parseBulkString(bytes) ==
    LET l == readLine(bytes)
        length == Atoi(l.line)
    IN IF l.err # "" THEN Failed(l.err, l.rest)
       ELSE IF ~length.ok THEN Failed(ErrBulkLength, l.rest)
       ELSE IF length.n = -1
            THEN Returned(Value(BulkString, NullMarkerBytes, 0, <<>>), l.rest)
       ELSE IF length.n < 0 THEN Failed(ErrBulkLength, l.rest)
       ELSE IF Len(l.rest) < length.n + 2
            THEN Failed(IF l.rest = <<>> THEN EOF ELSE ErrUnexpectedEOF, <<>>)
       ELSE Returned(Value(BulkString, SubSeq(l.rest, 1, length.n), 0, <<>>),
                   SubSeq(l.rest, length.n + 3, Len(l.rest)))

RECURSIVE Parse(_)
RECURSIVE parseElements(_, _, _)

\* the loop of parseArray
parseElements(bytes, count, array) ==
    IF count = 0 THEN Returned(Value(Array, <<>>, 0, array), bytes)
    ELSE LET value == Parse(bytes) IN
           IF value.err # "" THEN value
           ELSE parseElements(value.rest, count - 1, Append(array, value.v))

parseArray(bytes) ==
    LET l == readLine(bytes)
        count == Atoi(l.line)
    IN IF l.err # "" THEN Failed(l.err, l.rest)
       ELSE IF ~count.ok THEN Failed(ErrArrayCount, l.rest)
       ELSE IF count.n = -1 THEN Returned(Value(Array, <<>>, 0, <<>>), l.rest)
       ELSE IF count.n < 0 THEN Failed(ErrArrayCount, l.rest)
       ELSE parseElements(l.rest, count.n, <<>>)

\* Parser.Parse: the value, or the error, and the bytes it has not read
Parse(bytes) ==
    IF bytes = <<>> THEN Failed(EOF, <<>>)
    ELSE LET typeByte == Head(bytes)
             rest == Tail(bytes)
         IN CASE typeByte = SimpleString -> parseSimpleString(rest)
              [] typeByte = Error -> parseError(rest)
              [] typeByte = Integer -> parseInteger(rest)
              [] typeByte = BulkString -> parseBulkString(rest)
              [] typeByte = Array -> parseArray(rest)
              [] OTHER -> Failed(ErrUnknownType, rest)

encodeBulkString(str) ==
    IF str = NullMarkerBytes THEN <<"$", "-", "1", CR, LF>>
    ELSE <<"$">> \o SprintInt(Len(str)) \o <<CR, LF>> \o str \o <<CR, LF>>

RECURSIVE Encode(_)
RECURSIVE encodeElements(_)

encodeElements(array) ==
    IF array = <<>> THEN <<>>
    ELSE Encode(Head(array)) \o encodeElements(Tail(array))

encodeArray(array) ==
    <<"*">> \o SprintInt(Len(array)) \o <<CR, LF>> \o encodeElements(array)

\* Encoder.Encode: the bytes written
Encode(value) ==
    CASE value.t = SimpleString -> <<"+">> \o value.s \o <<CR, LF>>
      [] value.t = Error -> <<"-">> \o value.s \o <<CR, LF>>
      [] value.t = Integer -> <<":">> \o SprintInt(value.i) \o <<CR, LF>>
      [] value.t = BulkString -> encodeBulkString(value.s)
      [] value.t = Array -> encodeArray(value.a)

\* the well-formed frames that are given to the parser
MaxBulkLen == 5
MaxArrayLen == 2
BulkBytes == {NUL, "N", "U", "L", CR, LF}
LineStrings == {<<>>, <<"O", "K">>, <<"N">>}
IntegerValues == {-12, -1, 0, 7, 10}
BulkContents == UNION {[1..n -> BulkBytes] : n \in 0..MaxBulkLen}

NullBulkFrame == <<"$", "-", "1", CR, LF>>
NullArrayFrame == <<"*", "-", "1", CR, LF>>
BulkFrame(str) == <<"$">> \o SprintInt(Len(str)) \o <<CR, LF>> \o str \o <<CR, LF>>
ScalarFrames ==
    {<<"+">> \o l \o <<CR, LF>> : l \in LineStrings}
    \cup {<<"-">> \o l \o <<CR, LF>> : l \in LineStrings}
    \cup {<<":">> \o SprintInt(n) \o <<CR, LF>> : n \in IntegerValues}
    \cup {BulkFrame(str) : str \in BulkContents}
    \cup {NullBulkFrame}

RECURSIVE Concat(_)
Concat(frames) ==
    IF frames = <<>> THEN <<>> ELSE Head(frames) \o Concat(Tail(frames))

ArraysOf(elements) ==
    {<<"*">> \o SprintInt(Len(frames)) \o <<CR, LF>> \o Concat(frames) :
        frames \in UNION {[1..n -> elements] : n \in 0..MaxArrayLen}}
    \cup {NullArrayFrame}

\* the elements of the arrays: the short scalars, and arrays of them
ShortFrames == {f \in ScalarFrames : Len(f) <= 7}
WellFormedFrames ==
    ScalarFrames \cup ArraysOf(ShortFrames)
    \cup ArraysOf({NullArrayFrame, NullBulkFrame} \cup ArraysOf({NullBulkFrame, <<":", "0", CR, LF>>}))

\* the variables of the server that a step on a store, a stream or a codec
\* leaves alone
ServerUnchanged ==
    UNCHANGED <<clientVars, m_pc, m_cur, m_resp, m_isReplica, m_idx, m_count,
                m_alive, m_out, replicas, rlock, storage, propagation_offset,
                pending_writes, last_acked, wait_start, wait_need,
                wait_deadline, applied, snapshot_at, closes, reset, stop_pc, accept_pc,
                purger_pc, parsing, peer_sends, cl_conn, propagated, loaderVars,
                wireVars, xaddVars>>

CodecIdle ==
    /\ cd_in = <<>>
    /\ cd_pc = "idle"
    /\ cd_val = Failed("", <<>>)
    /\ cd_out = <<>>

CodecUnchanged ==
    /\ UNCHANGED <<st_data, st_task, st_last, xs_entries, xs_last, clock>>
    /\ ServerUnchanged

\* parser.Parse() on the bytes
CodecParse ==
    /\ cd_pc = "parse"
    /\ cd_val' = Parse(cd_in)
    /\ cd_pc' = IF cd_val'.err = "" THEN "parsed" ELSE "failed"
    /\ UNCHANGED <<cd_in, cd_out>>
    /\ CodecUnchanged

\* encoder.Encode(value) on what was parsed
CodecEncode ==
    /\ cd_pc = "parsed"
    /\ cd_out' = Encode(cd_val.v)
    /\ cd_pc' = "encoded"
    /\ UNCHANGED <<cd_in, cd_val>>
    /\ CodecUnchanged

-----------------------------------------------------------------------------
(* storage.Storage: one map from key to entry *)

Keys == {"a"}

NoExpiry == [has |-> FALSE, at |-> 0]
ExpiryAt(t) == [has |-> TRUE, at |-> t]
NoEntry == [present |-> FALSE, value |-> "", expiry |-> NoExpiry]
EmptyStorage == [k \in Keys |-> NoEntry]

\* Storage.Set: unconditional overwrite
StorageSet(data, key, value, expiry) ==
    [data EXCEPT ![key] = [present |-> TRUE, value |-> value, expiry |-> expiry]]

\* time.Now().After(*e.expiry)
Expired(e, now) == e.present /\ e.expiry.has /\ now > e.expiry.at

\* Storage.Get: an expired entry is deleted and reported absent
StorageGet(data, key, now) ==
    IF ~data[key].present THEN [found |-> FALSE, value |-> "", data |-> data]
    ELSE IF Expired(data[key], now)
         THEN [found |-> FALSE, value |-> "", data |-> [data EXCEPT ![key] = NoEntry]]
         ELSE [found |-> TRUE, value |-> data[key].value, data |-> data]

-----------------------------------------------------------------------------
(* the store on its own: callers of Storage at the granularity of its lock *)

\* key names and patterns are strings of these characters
KeyChars == {"a", "b"}
Star == "*"

\* Storage.Delete
StorageDelete(data, key) == [data EXCEPT ![key] = NoEntry]

\* strings.Split(pattern, "*")
RECURSIVE SplitStar(_)
SplitStar(pattern) ==
    IF \A k \in 1..Len(pattern) : pattern[k] # Star THEN <<pattern>>
    ELSE LET k == CHOOSE k \in 1..Len(pattern) :
                    /\ pattern[k] = Star
                    /\ \A j \in 1..(k - 1) : pattern[j] # Star
         IN <<SubSeq(pattern, 1, k - 1)>>
            \o SplitStar(SubSeq(pattern, k + 1, Len(pattern)))

\* strings.HasPrefix and strings.HasSuffix
StartsWith(str, part) ==
    Len(part) <= Len(str) /\ SubSeq(str, 1, Len(part)) = part
EndsWith(str, part) ==
    /\ Len(part) <= Len(str)
    /\ SubSeq(str, Len(str) - Len(part) + 1, Len(str)) = part

\* strings.Index: where part first occurs in str, counted from 0; -1 if nowhere
Index(str, part) ==
    LET at == {i \in 0..(Len(str) - Len(part)) : SubSeq(str, i + 1, i + Len(part)) = part}
    IN IF at = {} THEN 0 - 1
       ELSE CHOOSE i \in at : \A j \in at : i <= j

\* MatchPattern: the loop that looks for the parts in order
RECURSIVE PartsInOrder(_, _, _)
PartsInOrder(parts, str, currentPos) ==
    IF parts = <<>> THEN TRUE
    ELSE IF Head(parts) = <<>> THEN PartsInOrder(Tail(parts), str, currentPos)
    ELSE LET idx == Index(SubSeq(str, currentPos + 1, Len(str)), Head(parts)) IN
         IF idx = 0 - 1 THEN FALSE
         ELSE PartsInOrder(Tail(parts), str, currentPos + idx + Len(Head(parts)))

\* a match that only looks for the parts in order
MatchPattern_Unanchored(pattern, str) ==
    IF \E k \in 1..Len(pattern) : pattern[k] = Star
    THEN PartsInOrder(SplitStar(pattern), str, 0)
    ELSE pattern = str

\* utils.MatchPattern
MatchPattern(pattern, str) ==
    IF pattern = <<Star>> THEN TRUE
    ELSE IF \E k \in 1..Len(pattern) : pattern[k] = Star
    THEN LET parts == SplitStar(pattern) IN
         /\ StartsWith(str, parts[1])
         /\ EndsWith(str, parts[Len(parts)])
         /\ PartsInOrder(parts, str, 0)
    ELSE pattern = str

\* Storage.Keys: the keys that are not expired and match; nothing is deleted
StorageKeys(data, pattern, now) ==
    {key \in DOMAIN data :
        /\ data[key].present
        /\ ~Expired(data[key], now)
        /\ (pattern = <<Star>> \/ MatchPattern(pattern, key))}

\* a purger that removes every entry that has an expiry, past or not
StoragePurge_Early(data, now) ==
    [key \in DOMAIN data |-> IF data[key].expiry.has THEN NoEntry ELSE data[key]]

\* Storage.cleanupExpired: one tick of the purger
StoragePurge(data, now) ==
    [key \in DOMAIN data |-> IF Expired(data[key], now) THEN NoEntry ELSE data[key]]

(* rdb.Loader: the snapshot file read at start.  The file is its magic      *)
(* string and its records; of a string only the outcome of readString is    *)
(* kept: its text, or why it could not be read.                             *)

rdbMagic == "REDIS"
valueTypeString == 0
\* readString on a string whose encoding byte is 0xC3 (LZF), and on a file
\* that ends inside the string
Unsupported == "unsupported string encoding"
Truncated == "unexpected EOF"

MaxRecords == 3

Record(op, type, key, value, ms) ==
    [op |-> op, type |-> type, key |-> key, value |-> value, ms |-> ms]
RdbRecords ==
    { Record("EOF", 0, "", "", 0), Record("SELECTDB", 0, "", "", 0),
      Record("AUX", 0, "a", "1", 0), Record("AUX", 0, "a", Truncated, 0),
      Record("VALUE", valueTypeString, "a", "1", 0),
      Record("EXPIRETIME_MS", valueTypeString, "a", "1", 1),
      Record("VALUE", 1, "a", "1", 0),
      Record("VALUE", valueTypeString, Unsupported, "1", 0),
      Record("VALUE", valueTypeString, "a", Truncated, 0) }
RdbFiles ==
    [magic : {rdbMagic, "REDIX", "RED"},
     records : UNION {[1..n -> RdbRecords] : n \in 0..MaxRecords}]

LoadFailed(err, data) == [err |-> err, data |-> data]

\* Loader.readValue, and readKeyValue before it: Storage.Set as soon as the
\* key and the value are read
readValue(valueType, key, value, expiryMs, data) ==
    IF valueType # valueTypeString THEN LoadFailed("unsupported value type", data)
    ELSE IF key \in {Unsupported, Truncated}
    THEN LoadFailed("failed to read key: " \o key, data)
    ELSE IF value \in {Unsupported, Truncated}
    THEN LoadFailed("failed to read value: " \o value, data)
    ELSE [err |-> "",
          data |-> StorageSet(data, key, value,
                              IF expiryMs > 0 THEN ExpiryAt(expiryMs) ELSE NoExpiry)]

\* the loop of Loader.load over the op codes
RECURSIVE loadRecords(_, _)
loadRecords(records, data) ==
    IF records = <<>> THEN LoadFailed("failed to read op code: EOF", data)
    ELSE LET r == Head(records) IN
         CASE r.op = "EOF" -> [err |-> "", data |-> data]
           [] r.op = "SELECTDB" -> loadRecords(Tail(records), data)
           [] r.op = "AUX" ->
                 IF r.key \in {Unsupported, Truncated} THEN LoadFailed(r.key, data)
                 ELSE IF r.value \in {Unsupported, Truncated} THEN LoadFailed(r.value, data)
                 ELSE loadRecords(Tail(records), data)
           [] OTHER ->
                 LET read == readValue(r.type, r.key, r.value,
                                       IF r.op = "EXPIRETIME_MS" THEN r.ms ELSE 0, data)
                 IN IF read.err # "" THEN read
                    ELSE loadRecords(Tail(records), read.data)

\* Loader.load
load(file, data) ==
    IF file.magic = "RED" THEN LoadFailed("failed to read magic: unexpected EOF", data)
    ELSE IF file.magic # rdbMagic
    THEN LoadFailed("invalid RDB file: wrong magic string", data)
    ELSE loadRecords(file.records, data)

\* a byte, and the operators of Go on the type byte: the result of a shift
\* is a byte again
Bytes == 0..255
ByteAnd3F(b) == b % 64
ByteShl(b, n) == (b * (2 ^ n)) % 256
ByteShr6(b) == b \div 64
\* binary.BigEndian.Uint32
BigEndianUint32(buf) ==
    ((buf[1] * 256 + buf[2]) * 256 + buf[3]) * 256 + buf[4]

\* Loader.readLength on the bytes the reader holds: the length, the error
\* and the bytes left.  An OR of a multiple of 256 and a byte is their sum
LengthRead(n, err, rest) == [n |-> n, err |-> err, rest |-> rest]
readLength(bytes) ==
    IF bytes = <<>> THEN LengthRead(0, EOF, <<>>)
    ELSE LET firstByte == Head(bytes)
             encType == ByteShr6(firstByte)
             after == Tail(bytes)
         IN CASE encType = 0 -> LengthRead(ByteAnd3F(firstByte), "", after)
              [] encType = 1 ->
                    IF after = <<>> THEN LengthRead(0, EOF, <<>>)
                    ELSE LengthRead(ByteShl(ByteAnd3F(firstByte), 8) + Head(after),
                                    "", Tail(after))
              [] encType = 2 ->
                    IF Len(after) < 4
                    THEN LengthRead(0, IF after = <<>> THEN EOF ELSE ErrUnexpectedEOF, <<>>)
                    ELSE LengthRead(BigEndianUint32(SubSeq(after, 1, 4)), "",
                                    SubSeq(after, 5, Len(after)))
              [] OTHER -> LengthRead(firstByte, "", after)

LengthIdle ==
    /\ len_in = <<>>
    /\ len_pc = "done"
    /\ len_out = LengthRead(0, "", <<>>)

NoFile == [magic |-> rdbMagic, records |-> <<Record("EOF", 0, "", "", 0)>>]
LoaderIdle ==
    /\ rdb_file = NoFile
    /\ rdb_pc = "started"
    /\ rdb_err = ""
    /\ LengthIdle

-----------------------------------------------------------------------------
(* callers of one Storage *)

StoreTasks == {"t1", "t2"}
StoreKeys == {<<"a">>}
StoreValues == {"1", "2"}

NoResult == [found |-> FALSE, value |-> "", keys |-> {}]
IdleTask == [pc |-> "idle", op |-> "", key |-> <<>>, ret |-> NoResult]
NeverSet == [kind |-> "none", value |-> "", expiry |-> NoExpiry]

StoreUnchanged ==
    /\ UNCHANGED <<xs_entries, xs_last, codecVars>>
    /\ ServerUnchanged

\* Storage.Set by a caller, under the write lock
StSet(t, key, value, expiry) ==
    /\ st_task[t].pc = "idle"
    /\ st_data' = StorageSet(st_data, key, value, expiry)
    /\ st_last' = [st_last EXCEPT ![key] =
                      [kind |-> "set", value |-> value, expiry |-> expiry]]
    /\ UNCHANGED <<st_task, clock>>
    /\ StoreUnchanged

\* Storage.Delete by a caller, under the write lock
StDelete(t, key) ==
    /\ st_task[t].pc = "idle"
    /\ st_data' = StorageDelete(st_data, key)
    /\ st_last' = [st_last EXCEPT ![key] = [NeverSet EXCEPT !.kind = "deleted"]]
    /\ UNCHANGED <<st_task, clock>>
    /\ StoreUnchanged

\* Storage.Get under the read lock, called by GET (GetString) or by TYPE: an
\* entry that is absent or live is returned here; for an expired one the read
\* lock is given up
StGetLook(t, op, key) ==
    /\ st_task[t].pc = "idle"
    /\ LET e == st_data[key] IN
         st_task' = [st_task EXCEPT ![t] =
            IF ~e.present
            THEN [pc |-> "done", op |-> op, key |-> key, ret |-> NoResult]
            ELSE IF Expired(e, clock)
            THEN [pc |-> "upgrade", op |-> op, key |-> key, ret |-> NoResult]
            ELSE [pc |-> "done", op |-> op, key |-> key,
                  ret |-> [found |-> TRUE, value |-> e.value, keys |-> {}]]]
    /\ UNCHANGED <<st_data, st_last, clock>>
    /\ StoreUnchanged

\* Storage.Get: the write lock is taken and delete(s.data, key) runs on
\* whatever the map holds by now
StGetDelete(t) ==
    /\ st_task[t].pc = "upgrade"
    /\ st_data' = StorageDelete(st_data, st_task[t].key)
    /\ st_task' = [st_task EXCEPT ![t].pc = "done"]
    /\ UNCHANGED <<st_last, clock>>
    /\ StoreUnchanged

\* Storage.Keys, under the read lock
StKeys(t, pattern) ==
    /\ st_task[t].pc = "idle"
    /\ st_task' = [st_task EXCEPT ![t] =
          [pc |-> "done", op |-> "KEYS", key |-> pattern,
           ret |-> [NoResult EXCEPT !.keys = StorageKeys(st_data, pattern, clock)]]]
    /\ UNCHANGED <<st_data, st_last, clock>>
    /\ StoreUnchanged

\* the caller has its result
StReturn(t) ==
    /\ st_task[t].pc = "done"
    /\ st_task' = [st_task EXCEPT ![t] = IdleTask]
    /\ UNCHANGED <<st_data, st_last, clock>>
    /\ StoreUnchanged

\* Storage.cleanupExpired: the ticker fires
StPurge ==
    /\ st_data # StoragePurge(st_data, clock)
    /\ st_data' = StoragePurge(st_data, clock)
    /\ UNCHANGED <<st_task, st_last, clock>>
    /\ StoreUnchanged

\* no XADD yet
NoXAdd == [id |-> [ms |-> "", seq |-> ""], resp |-> NullBulkString]
\* the connections whose tasks run XADD, and a task that runs none
XAddTasks == {"c1", "c2"}
XAddIdle == [pc |-> "idle", id |-> NoXAdd.id, exists |-> FALSE, stream |-> 0,
             generatedID |-> NoXAdd.id, resp |-> NullBulkString]
StreamIdle ==
    /\ xs_entries = <<>>
    /\ xs_last = NoXAdd
    /\ xa_key = 0
    /\ xa_heap = <<>>
    /\ xa_task = [c \in XAddTasks |-> XAddIdle]

StoreIdle ==
    /\ CodecIdle
    /\ LoaderIdle
    /\ st_data = [key \in StoreKeys |-> NoEntry]
    /\ st_task = [t \in StoreTasks |-> IdleTask]
    /\ st_last = [key \in StoreKeys |-> NeverSet]
    /\ StreamIdle

-----------------------------------------------------------------------------
(* commands: the registry and the handlers the model uses *)

ErrSyntaxError == "ERR syntax error"
ErrInvalidExpireTime == "ERR invalid expire time"
MasterReplID == "8371b4fb1155b71f4a04d3e1bc3e18c4a990aeeb"
FullResyncStr == "FULLRESYNC " \o MasterReplID \o " 0"

\* the largest decimal the model parses
MaxParsed == 99

\* strconv.ParseInt / strconv.Atoi: the string is the decimal form of n
ParseInt(str) ==
    LET Parsed == {n \in (0 - 1)..MaxParsed : ToString(n) = str} IN
    IF Parsed = {} THEN [ok |-> FALSE, n |-> 0]
    ELSE [ok |-> TRUE, n |-> CHOOSE n \in Parsed : TRUE]

\* the option loop of SetCommand.Execute, from argument i on
RECURSIVE SetOptions(_, _, _, _)
SetOptions(args, i, now, expiry) ==
    IF i > Len(args) THEN [err |-> "", expiry |-> expiry]
    ELSE IF args[i] \in {"px", "PX"}
         THEN IF i + 1 > Len(args)
              THEN [err |-> ErrSyntaxError, expiry |-> expiry]
              ELSE LET ms == ParseInt(args[i + 1]) IN
                   IF ~ms.ok \/ ms.n <= 0
                   THEN [err |-> ErrInvalidExpireTime, expiry |-> expiry]
                   ELSE SetOptions(args, i + 2, now, ExpiryAt(now + ms.n))
         ELSE SetOptions(args, i + 1, now, expiry)

\* SetCommand.Execute
SetCommand(args, data, now) ==
    LET opts == SetOptions(args, 3, now, NoExpiry) IN
    IF opts.err # "" THEN [resp |-> ErrorValue(opts.err), data |-> data]
    ELSE [resp |-> SimpleStringValue("OK"),
          data |-> StorageSet(data, args[1], args[2], opts.expiry)]

\* GetCommand.Execute
GetCommandExecute(args, data, now) ==
    LET got == StorageGet(data, args[1], now) IN
    [resp |-> IF got.found THEN BulkStringValue(got.value) ELSE NullBulkString,
     data |-> got.data]

\* PingCommand.Execute
PingCommand(args) ==
    IF Len(args) = 0 THEN Pong ELSE SimpleStringValue(args[1])

\* ReplConfCommand.Execute
ReplConfCommand(args) ==
    LET subcommand == ToUpper(args[1]) IN
    CASE subcommand = "LISTENING-PORT" -> OK
      [] subcommand = "CAPA" -> OK
      [] subcommand = "GETACK" -> OK
      [] OTHER -> ErrorValue("ERR Unknown REPLCONF subcommand '" \o args[1] \o "'")

\* PsyncCommand.Execute
PsyncCommand(args) == SimpleStringValue(FullResyncStr)

\* MinArgs and MaxArgs of the registered commands (-1: unbounded)
Registered == {"PING", "SET", "GET", "REPLCONF", "PSYNC", "WAIT"}
MinArgs(name) ==
    CASE name = "PING" -> 0
      [] name = "GET" -> 1
      [] OTHER -> 2
\* a registry without upper limits
MaxArgs_Unbounded(name) == 0 - 1
MaxArgs(name) ==
    CASE name = "PING" -> 1
      [] name = "GET" -> 1
      [] name \in {"PSYNC", "WAIT"} -> 2
      [] OTHER -> 0 - 1

\* Registry.HandleCommand for every command but WAIT, which blocks in the
\* server: the reply and the storage after the command
HandleCommand(v, data, now) ==
    IF ~IsCommand(v)
    THEN [resp |-> ErrorValue("ERR invalid command format"), data |-> data]
    ELSE LET name == ToUpper(GetCommand(v))
             args == GetArgs(v)
         IN
         IF name \notin Registered
         THEN [resp |-> ErrorValue("ERR unknown command '" \o GetCommand(v) \o "'"),
               data |-> data]
         ELSE IF \/ (MinArgs(name) > 0 /\ Len(args) < MinArgs(name))
                 \/ (MaxArgs(name) >= 0 /\ Len(args) > MaxArgs(name))
         THEN [resp |-> ErrorValue("ERR wrong number of arguments for '"
                                   \o ToLower(GetCommand(v)) \o "' command"),
               data |-> data]
         ELSE CASE name = "SET" -> SetCommand(args, data, now)
                [] name = "GET" -> GetCommandExecute(args, data, now)
                [] name = "PING" -> [resp |-> PingCommand(args), data |-> data]
                [] name = "REPLCONF" -> [resp |-> ReplConfCommand(args), data |-> data]
                [] name = "PSYNC" -> [resp |-> PsyncCommand(args), data |-> data]
                [] OTHER -> [resp |-> ErrorValue("ERR"), data |-> data]

-----------------------------------------------------------------------------
(* storage.Stream and XADD: a stream ID is the two decimal strings around   *)
(* its "-"                                                                   *)

MaxEntries == 3

\* the decimal strings an ID is written with, and the ID strings themselves
IdParts == {"0", "00", "1", "2"}
StreamID(ms, seq) == [ms |-> ms, seq |-> seq]
AutoID == StreamID("*", "")
RequestIDs ==
    {AutoID} \cup {StreamID(ms, "*") : ms \in IdParts}
             \cup {StreamID(ms, seq) : ms \in IdParts, seq \in IdParts}

\* strconv.ParseUint / strconv.ParseInt of a part: leading zeros are accepted
ParseUint(str) ==
    IF str = "00" THEN [ok |-> TRUE, n |-> 0]
    ELSE IF ParseInt(str).ok /\ ParseInt(str).n >= 0 THEN ParseInt(str)
    ELSE [ok |-> FALSE, n |-> 0]

\* fmt.Sprintf("%d-%d", ms, seq)
SprintID(ms, seq) == StreamID(ToString(ms), ToString(seq))

\* the ID as the one string that is stored and sent
IDString(id) == IF id = AutoID THEN "*" ELSE id.ms \o "-" \o id.seq

\* time.Now().UnixMilli(): the epoch is in the past
NowMs(now) == now + 1

ErrZeroID == "ERR The ID specified in XADD must be greater than 0-0"
ErrTopItem ==
    "ERR The ID specified in XADD is equal or smaller than the target stream top item"
ErrInvalidID == "ERR Invalid stream ID specified as stream command argument"

\* storage.CompareStreamIDs; a part that does not parse counts as 0
CompareStreamIDs(id1, id2) ==
    LET ts1 == ParseUint(id1.ms).n
        ts2 == ParseUint(id2.ms).n
        seq1 == ParseUint(id1.seq).n
        seq2 == ParseUint(id2.seq).n
    IN IF ts1 < ts2 THEN 0 - 1
       ELSE IF ts1 > ts2 THEN 1
       ELSE IF seq1 < seq2 THEN 0 - 1
       ELSE IF seq1 > seq2 THEN 1
       ELSE 0

\* parseExistingID
parseExistingID(id) == [ms |-> ParseUint(id.ms).n, seq |-> ParseUint(id.seq).n]

\* parseStreamID: the ID to append, or the error
parseStreamID(id, entries, now) ==
    LET empty == entries = <<>>
        last == parseExistingID(entries[Len(entries)])
        Accept(newID) == [err |-> "", id |-> newID]
        Reject(err) == [err |-> err, id |-> id]
    IN
    IF id = StreamID("0", "0") THEN Reject(ErrZeroID)
    ELSE IF id = AutoID
    THEN Accept(SprintID(NowMs(now),
                         IF ~empty /\ last.ms = NowMs(now) THEN last.seq + 1 ELSE 0))
    ELSE IF id.seq = "*"
    THEN IF ~ParseUint(id.ms).ok THEN Reject(ErrInvalidID)
         ELSE LET ms == ParseUint(id.ms).n IN
              IF ~empty /\ ms < last.ms THEN Reject(ErrTopItem)
              ELSE Accept(SprintID(ms,
                      IF ~empty THEN (IF last.ms = ms THEN last.seq + 1 ELSE 0)
                      ELSE IF ms = 0 THEN 1 ELSE 0))
    ELSE IF ~empty /\ CompareStreamIDs(id, entries[Len(entries)]) <= 0
    THEN Reject(ErrTopItem)
    ELSE Accept(id)

\* XAddCommand.Execute on the stream: parseStreamID, Stream.AddEntry, and the
\* reply
XAdd(id) ==
    /\ Len(xs_entries) < MaxEntries
    /\ LET parsed == parseStreamID(id, xs_entries, clock) IN
         IF parsed.err # ""
         THEN /\ xs_last' = [id |-> id, resp |-> ErrorValue(parsed.err)]
              /\ UNCHANGED xs_entries
         ELSE /\ xs_entries' = Append(xs_entries, parsed.id)
              /\ xs_last' = [id |-> id, resp |-> BulkStringValue(IDString(parsed.id))]
    /\ UNCHANGED <<st_data, st_task, st_last, codecVars, clock>>
    /\ ServerUnchanged

\* XAddCommand.Execute by the tasks of several connections, one call of
\* Storage or Stream at a time: each call takes its lock and gives it back
XAddUnchanged ==
    UNCHANGED <<storeVars, clock, clientVars, m_pc, m_cur, m_resp, m_isReplica,
                m_idx, m_count, m_alive, m_out, replicas, rlock, storage,
                propagation_offset, pending_writes, last_acked, wait_start,
                wait_need, wait_deadline, applied, snapshot_at, closes, reset, stop_pc,
                accept_pc, purger_pc, parsing, peer_sends, cl_conn, propagated,
                loaderVars, wireVars>>

EntriesStored == IF xa_key = 0 THEN <<>> ELSE xa_heap[xa_key]
XAddBusy == {c \in XAddTasks : xa_task[c].pc # "idle"}

\* ctx.Storage.Get(key)
XAddGet(c, id) ==
    /\ xa_task[c].pc = "idle"
    /\ Len(EntriesStored) + Cardinality(XAddBusy) < MaxEntries
    /\ xa_task' = [xa_task EXCEPT ![c] =
          [XAddIdle EXCEPT !.pc = IF xa_key # 0 THEN "parse" ELSE "create",
                           !.id = id,
                           !.exists = xa_key # 0,
                           !.stream = xa_key]]
    /\ UNCHANGED <<xa_key, xa_heap>>
    /\ XAddUnchanged

\* storage.NewStream() and ctx.Storage.Set(key, stream, nil)
XAddCreate(c) ==
    /\ xa_task[c].pc = "create"
    /\ xa_heap' = Append(xa_heap, <<>>)
    /\ xa_key' = Len(xa_heap) + 1
    /\ xa_task' = [xa_task EXCEPT ![c].pc = "parse", ![c].stream = Len(xa_heap) + 1]
    /\ XAddUnchanged

\* parseStreamID(id, stream): the ID is checked against stream.GetLastEntry()
XAddParse(c) ==
    /\ xa_task[c].pc = "parse"
    /\ LET parsed == parseStreamID(xa_task[c].id, xa_heap[xa_task[c].stream], clock) IN
         xa_task' = [xa_task EXCEPT ![c] =
            IF parsed.err # ""
            THEN [@ EXCEPT !.pc = "done", !.resp = ErrorValue(parsed.err)]
            ELSE [@ EXCEPT !.pc = "add", !.generatedID = parsed.id]]
    /\ UNCHANGED <<xa_key, xa_heap>>
    /\ XAddUnchanged

\* stream.AddEntry(generatedID, fields), and the reply
XAddEntry(c) ==
    /\ xa_task[c].pc = "add"
    /\ xa_heap' = [xa_heap EXCEPT ![xa_task[c].stream] = Append(@, xa_task[c].generatedID)]
    /\ xa_task' = [xa_task EXCEPT ![c].pc = "done",
                                  ![c].resp = BulkStringValue(IDString(xa_task[c].generatedID))]
    /\ UNCHANGED xa_key
    /\ XAddUnchanged

\* Execute has returned and the reply is written
XAddReturn(c) ==
    /\ xa_task[c].pc = "done"
    /\ xa_task' = [xa_task EXCEPT ![c] = XAddIdle]
    /\ UNCHANGED <<xa_key, xa_heap>>
    /\ XAddUnchanged

-----------------------------------------------------------------------------
(* replication.Client: the replica's handshake with its master *)

\* Server.getEmptyRDB: "REDIS", "0003", 0xFF
getEmptyRDB == <<"R", "E", "D", "I", "S", "0", "0", "0", "3", "\\xFF">>

\* what a connection carries besides values: raw bytes
Raw(str, bytes) == [t |-> "raw", s |-> str, i |-> 0, a |-> bytes]
RDBHeader == Raw("$" \o ToString(Len(getEmptyRDB)) \o "\r\n", <<>>)
RDBData == Raw("", getEmptyRDB)

ReplicaPort == 6380

PingCmd == Cmd(<<"PING">>)
ListeningPortCmd == Cmd(<<"REPLCONF", "listening-port", ToString(ReplicaPort)>>)
CapaCmd == Cmd(<<"REPLCONF", "capa", "psync2">>)
PsyncCmd == Cmd(<<"PSYNC", "?", "-1">>)
AckCmd(offset) == Cmd(<<"REPLCONF", "ACK", ToString(offset)>>)

BadOffsetStr == "FULLRESYNC " \o MasterReplID \o " x"

\* strings.Split(str, " ") on the reply texts the model uses
Split(str) ==
    CASE str = FullResyncStr -> <<"FULLRESYNC", MasterReplID, "0">>
      [] str = BadOffsetStr -> <<"FULLRESYNC", MasterReplID, "x">>
      [] OTHER -> <<str>>

\* what the master may answer to a handshake request
HandshakeReplies ==
    { Pong, OK, SimpleStringValue(FullResyncStr), SimpleStringValue(BadOffsetStr),
      SimpleStringValue("CONTINUE"), ErrorValue("ERR unknown command"),
      BulkStringValue("PONG") }

\* the checks sendPing, sendReplConf* and sendPsync make on the reply
IsPong(v) == v.t = SimpleString /\ v.s = "PONG"
\* a replica that takes any reply to REPLCONF for +OK
IsOK_AnyReply(v) == TRUE
IsOK(v) == v.t = SimpleString /\ v.s = "OK"
\* a replica that takes any simple string for +FULLRESYNC
IsFullResync_AnySimpleString(v) == v.t = SimpleString
IsFullResync(v) ==
    /\ v.t = SimpleString
    /\ LET parts == Split(v.s) IN
         /\ Len(parts) = 3
         /\ parts[1] = "FULLRESYNC"
         /\ ParseInt(parts[3]).ok

\* what the master connection delivers next, given how many reads came
\* before: anything from the set `any` when the master is any master, else
\* what the master of the model wrote at that place of the connection
Delivered(before, any) ==
    IF cl_conn = "none" THEN any
    ELSE IF Len(m_out[cl_conn]) > before THEN {m_out[cl_conn][before + 1].v}
    ELSE {}

\* encoder.Encode(cmd) on the master connection: written, or a write error
ClSend(from, cmd, to) ==
    /\ cl_pc = from
    /\ \/ /\ cl_sent' = Append(cl_sent, cmd)
          /\ cl_pc' = to
       \/ /\ cl_pc' = "failed"
          /\ UNCHANGED cl_sent
    /\ UNCHANGED <<cl_rcvd, cl_rdb, cl_offset, cl_consumed, cl_storage, cl_dropped, cl_link, clock>>
    /\ UNCHANGED masterVars

\* parser.Parse() of the reply, then the check of it
ClRead(from, accepted, to) ==
    /\ cl_pc = from
    /\ \/ \E reply \in Delivered(Len(cl_rcvd), HandshakeReplies) :
            /\ cl_rcvd' = Append(cl_rcvd, reply)
            /\ cl_pc' = IF reply \in accepted THEN to ELSE "failed"
       \/ /\ cl_pc' = "failed"
          /\ UNCHANGED cl_rcvd
    /\ UNCHANGED <<cl_sent, cl_rdb, cl_offset, cl_consumed, cl_storage, cl_dropped, cl_link, clock>>
    /\ UNCHANGED masterVars

\* Client.Connect
Connect ==
    /\ cl_pc = "connect"
    /\ cl_pc' \in {"sendPing", "failed"}
    /\ UNCHANGED <<cl_sent, cl_rcvd, cl_rdb, cl_offset, cl_consumed, cl_storage, cl_dropped, cl_link, clock>>
    /\ UNCHANGED masterVars

sendPing ==
    \/ ClSend("sendPing", PingCmd, "readPong")
    \/ ClRead("readPong", {v \in HandshakeReplies : IsPong(v)},
              "sendReplConfListeningPort")

sendReplConfListeningPort ==
    \/ ClSend("sendReplConfListeningPort", ListeningPortCmd, "readListeningPortOK")
    \/ ClRead("readListeningPortOK", {v \in HandshakeReplies : IsOK(v)},
              "sendReplConfCapa")

sendReplConfCapa ==
    \/ ClSend("sendReplConfCapa", CapaCmd, "readCapaOK")
    \/ ClRead("readCapaOK", {v \in HandshakeReplies : IsOK(v)}, "sendPsync")

\* sendPsync: c.parser = resp.NewParser(c.conn). The parser it replaces read
\* the connection through a bufio.Reader, which took with the +FULLRESYNC
\* line whatever else had arrived by then; that goes with the old parser
NewParser ==
    /\ cl_pc = "newParser"
    /\ cl_dropped' \in
          IF cl_conn = "none" THEN {0}
          ELSE 0..(Len(m_out[cl_conn]) - Len(cl_rcvd))
    /\ cl_pc' = "receiveRDB"
    /\ UNCHANGED <<cl_sent, cl_rcvd, cl_rdb, cl_offset, cl_consumed, cl_storage, cl_link, clock>>
    /\ UNCHANGED masterVars

sendPsync ==
    \/ ClSend("sendPsync", PsyncCmd, "readFullResync")
    \/ ClRead("readFullResync", {v \in HandshakeReplies : IsFullResync(v)},
              "newParser")
    \/ NewParser

\* Client.receiveRDB: whatever it finds, Handshake goes on to the stream
RdbOutcomes == {"read", "absent", "prepended", "error"}
RdbStart == Len(cl_rcvd) + cl_dropped
receiveRDB ==
    /\ cl_pc = "receiveRDB"
    /\ IF cl_conn = "none" THEN cl_rdb' \in RdbOutcomes
       ELSE /\ Len(m_out[cl_conn]) > RdbStart
            /\ LET first == m_out[cl_conn][RdbStart + 1] IN
                 IF first.kind = "rdbheader"
                 THEN /\ Len(m_out[cl_conn]) > RdbStart + 1
                      /\ cl_rdb' = "read"
                 ELSE cl_rdb' = "prepended"
    /\ cl_pc' = "stream"
    /\ UNCHANGED <<cl_sent, cl_rcvd, cl_offset, cl_consumed, cl_storage, cl_dropped, cl_link, clock>>
    /\ UNCHANGED masterVars

-----------------------------------------------------------------------------
(* Server.processReplicationStream on the replica *)

GetAckCmd == Cmd(<<"REPLCONF", "GETACK", "*">>)

\* what the master connection delivers after the snapshot: write commands,
\* PING, REPLCONF GETACK, and the reply frame a master writes on the
\* connection when it answers a command of the replica
StreamFrames ==
    { Cmd(<<"SET", "a", "1">>), PingCmd, GetAckCmd,
      ErrorValue("ERR Unknown REPLCONF subcommand 'ACK'"), RDBData }

\* where the stream begins on the connection, and what comes next on it
StreamStart == RdbStart + (IF cl_rdb = "read" THEN 2 ELSE 0)
StreamNext == Delivered(StreamStart + Len(cl_consumed), StreamFrames)

\* one turn of the loop on bytes that are no frame: ListenForCommands
\* returns an error that is not io.EOF, which is logged
StreamGarbage(frame) ==
    /\ cl_pc = "stream"
    /\ Len(cl_consumed) < MaxStream
    /\ frame.t = "raw"
    /\ cl_consumed' = Append(cl_consumed, frame)
    /\ UNCHANGED <<cl_pc, cl_sent, cl_rcvd, cl_rdb, cl_offset, cl_storage, cl_dropped, cl_link, clock>>
    /\ UNCHANGED masterVars

IsGetAck(command) ==
    /\ ToUpper(GetCommand(command)) = "REPLCONF"
    /\ Len(GetArgs(command)) > 0
    /\ ToUpper(GetArgs(command)[1]) = "GETACK"

\* Client.ProcessCommand: count the frame's bytes
ProcessCommand(offset, command) == offset + ByteLen(command)

\* one turn of the loop on a frame whose GetCommand fails: logged, skipped
StreamSkip(frame) ==
    /\ cl_pc = "stream"
    /\ Len(cl_consumed) < MaxStream
    /\ frame.t # "raw"
    /\ ~IsCommand(frame)
    /\ cl_consumed' = Append(cl_consumed, frame)
    /\ UNCHANGED <<cl_pc, cl_sent, cl_rcvd, cl_rdb, cl_offset, cl_storage, cl_dropped, cl_link, clock>>
    /\ UNCHANGED masterVars

\* Client.SendReplConfAck: the frame REPLCONF ACK <c.offset>, built from the
\* offset at the time of the call
SendReplConfAck_Bumped(offset) == AckCmd(offset + ByteLen(GetAckCmd))
SendReplConfAck(offset) == AckCmd(offset)

\* one turn of the loop on REPLCONF GETACK: ACK first, then count the frame
StreamGetAck(frame) ==
    /\ cl_pc = "stream"
    /\ Len(cl_consumed) < MaxStream
    /\ IsCommand(frame)
    /\ IsGetAck(frame)
    /\ cl_consumed' = Append(cl_consumed, frame)
    /\ \/ cl_sent' = Append(cl_sent, SendReplConfAck(cl_offset))
       \/ UNCHANGED cl_sent
    /\ cl_offset' = ProcessCommand(cl_offset, frame)
    /\ UNCHANGED <<cl_pc, cl_rcvd, cl_rdb, cl_storage, cl_dropped, cl_link, clock>>
    /\ UNCHANGED masterVars

\* a loop that writes the response of the command to the master
StreamCommand_Answered(frame) ==
    /\ cl_pc = "stream"
    /\ Len(cl_consumed) < MaxStream
    /\ IsCommand(frame)
    /\ ~IsGetAck(frame)
    /\ cl_consumed' = Append(cl_consumed, frame)
    /\ cl_offset' = ProcessCommand(cl_offset, frame)
    /\ cl_storage' = HandleCommand(frame, cl_storage, clock).data
    /\ cl_sent' = Append(cl_sent, HandleCommand(frame, cl_storage, clock).resp)
    /\ UNCHANGED <<cl_pc, cl_rcvd, cl_rdb, cl_dropped, cl_link, clock>>
    /\ UNCHANGED masterVars

\* one turn of the loop on any other command: count it, then execute it
StreamCommand(frame) ==
    /\ cl_pc = "stream"
    /\ Len(cl_consumed) < MaxStream
    /\ IsCommand(frame)
    /\ ~IsGetAck(frame)
    /\ cl_consumed' = Append(cl_consumed, frame)
    /\ cl_offset' = ProcessCommand(cl_offset, frame)
    /\ cl_storage' = HandleCommand(frame, cl_storage, clock).data
    /\ UNCHANGED <<cl_pc, cl_sent, cl_rcvd, cl_rdb, cl_dropped, cl_link, clock>>
    /\ UNCHANGED masterVars

\* the master connection goes down under the loop. What the reads report
\* from then on depends on how it went down and on the platform: io.EOF
\* (closed by the master), an error once and io.EOF after it, or the same
\* error on every read
LinkOutcomes == {"eof", "error once", "error"}

MasterLinkDown ==
    /\ cl_pc = "stream"
    /\ cl_link = "up"
    /\ cl_link' \in LinkOutcomes
    /\ UNCHANGED <<cl_pc, cl_sent, cl_rcvd, cl_rdb, cl_offset, cl_consumed, cl_storage, cl_dropped, clock>>
    /\ UNCHANGED masterVars

\* one turn of the loop on a read that fails with an error other than
\* io.EOF: the error is logged and the loop reads again
StreamReadError ==
    /\ cl_pc = "stream"
    /\ cl_link \in {"error once", "error"}
    /\ cl_link' = (IF cl_link = "error once" THEN "eof" ELSE "error")
    /\ UNCHANGED <<cl_pc, cl_sent, cl_rcvd, cl_rdb, cl_offset, cl_consumed, cl_storage, cl_dropped, clock>>
    /\ UNCHANGED masterVars

\* ListenForCommands returns io.EOF: the loop returns
StreamEOF ==
    /\ cl_pc = "stream"
    /\ cl_link = "eof"
    /\ cl_pc' = "closed"
    /\ UNCHANGED <<cl_sent, cl_rcvd, cl_rdb, cl_offset, cl_consumed, cl_storage, cl_dropped, cl_link, clock>>
    /\ UNCHANGED masterVars

processReplicationStream ==
    \/ \E frame \in StreamNext :
         \/ StreamGarbage(frame)
         \/ StreamSkip(frame)
         \/ StreamGetAck(frame)
         \/ StreamCommand(frame)
    \/ StreamReadError
    \/ StreamEOF

ClientInit ==
    /\ cl_pc = "connect"
    /\ cl_sent = <<>>
    /\ cl_rcvd = <<>>
    /\ cl_rdb = "none"
    /\ cl_offset = 0
    /\ cl_consumed = <<>>
    /\ cl_storage = EmptyStorage
    /\ cl_dropped = 0
    /\ cl_link = "up"

ClientNext ==
    \/ Connect
    \/ sendPing
    \/ sendReplConfListeningPort
    \/ sendReplConfCapa
    \/ sendPsync
    \/ receiveRDB
    \/ processReplicationStream
    \/ MasterLinkDown


-----------------------------------------------------------------------------
(* server.Server on the master: connections, replica set, propagation *)

ClientConns == {"c1", "c2"}
ReplicaConns == {"r1"}
Conns == ClientConns \cup ReplicaConns

\* frames the peers send, all connections together
MaxFrames == 4
\* connections that break
MaxCloses == 1
\* the last instant of the wall clock
MaxClock == 1

\* Server.shouldPropagate
WriteCommands ==
    {"SET", "DEL", "EXPIRE", "INCR", "DECR", "RPUSH", "LPUSH", "SADD", "SREM",
     "HSET", "HDEL"}
shouldPropagate(cmdName) == ToUpper(cmdName) \in WriteCommands

\* strings.HasPrefix(str, prefix) for a prefix that is the first word
HasPrefix(str, prefix) == Split(str)[1] = prefix

\* one write on a connection: what was written, why, and for which command
Item(kind, v, response) == [kind |-> kind, v |-> v, resp |-> response]

\* the name handleConnection takes from the value ("" when GetCommand fails)
CmdName(v) == IF IsCommand(v) THEN GetCommand(v) ELSE ""

\* the frames a peer may send: a replica that acknowledges sends either
\* offset 0 or the master's current offset
WaitFrames ==
    { Cmd(<<"WAIT", "0", "0">>), Cmd(<<"WAIT", "1", "1">>), Cmd(<<"WAIT", "2", "1">>),
      Cmd(<<"WAIT", "-1", "0">>) }
PeerInputs(c) ==
    peer_sends[c] \cup
        (IF AckCmd(0) \in peer_sends[c] THEN {AckCmd(propagation_offset)} ELSE {})

\* the frames the task has taken from its connection: one reply was written
\* or is about to be written for each
TakenFrom(c) ==
    Len(SelectSeq(m_out[c], LAMBDA it : it.kind \in {"reply", "fullresync"}))
    + (IF m_pc[c] = "respond" THEN 1 ELSE 0)

\* what parser.Parse() may return on a connection: a frame of its peer, which
\* on the replica's connection is the next frame the replica wrote
Inputs(c) ==
    IF c # cl_conn THEN PeerInputs(c)
    ELSE IF Len(cl_sent) > TakenFrom(c) THEN {cl_sent[TakenFrom(c) + 1]}
    ELSE {}

\* a write guard that lets error replies through
Propagates_ErrorsToo(isReplica, cmdName, response) ==
    ~isReplica /\ shouldPropagate(cmdName)

\* the write guard of handleConnection after the reply was sent
Propagates(isReplica, cmdName, response) ==
    ~isReplica /\ shouldPropagate(cmdName) /\ response.t # Error

\* the reader task of a replica connection consuming REPLCONF ACK <offset>
IsAck(v) ==
    /\ IsCommand(v)
    /\ ToUpper(GetCommand(v)) = "REPLCONF"
    /\ Len(GetArgs(v)) = 2
    /\ ToUpper(GetArgs(v)[1]) = "ACK"
    /\ ParseInt(GetArgs(v)[2]).ok
AckedOffset(v) == ParseInt(GetArgs(v)[2]).n

\* a count that takes every connected replica for acknowledged
AckedCount_Connected(reps, acked, offset) == Len(reps)

\* the replicas that acknowledged an offset
AckedCount(reps, acked, offset) ==
    Cardinality({k \in 1..Len(reps) : acked[reps[k]] >= offset})

\* Server.removeReplica: the first occurrence of the connection goes
RECURSIVE removeReplica(_, _)
removeReplica(reps, conn) ==
    IF reps = <<>> THEN <<>>
    ELSE IF Head(reps) = conn THEN Tail(reps)
    ELSE <<Head(reps)>> \o removeReplica(Tail(reps), conn)

\* WAIT has to wait: the arguments are good and a write was propagated since
\* the last ACK
WaitBlocks_Always(err, pending) == err = ""
WaitBlocks(err, pending) == err = "" /\ pending

\* WAIT is over: enough replicas acknowledged, or the deadline passed
WaitDone_NoDeadline(count, need, now, deadline) == count >= need
WaitDone(count, need, now, deadline) == count >= need \/ now >= deadline

\* propagation_offset after one more frame
BumpOffset_ByOne(offset, frame) == offset + 1
BumpOffset(offset, frame) == offset + ByteLen(frame)

\* WaitCommand.Execute: the argument checks before the server is asked
WaitArgsError(args) ==
    LET numReplicas == ParseInt(args[1])
        timeout == ParseInt(args[2])
    IN
    IF ~numReplicas.ok \/ numReplicas.n < 0 THEN "ERR invalid numreplicas"
    ELSE IF ~timeout.ok \/ timeout.n < 0 THEN "ERR invalid timeout"
    ELSE ""

\* the master's variables a step of one task leaves alone
\* handleConnection: the select on server.shutdown at the top of the loop
\* lets the task through to parser.Parse()
CanParse(c) == stop_pc = "idle" \/ c \in parsing

MasterUnchanged(changed) ==
    /\ IF "m_cur" \in changed THEN TRUE ELSE UNCHANGED m_cur
    /\ IF "m_resp" \in changed THEN TRUE ELSE UNCHANGED m_resp
    /\ IF "m_isReplica" \in changed THEN TRUE ELSE UNCHANGED m_isReplica
    /\ IF "m_idx" \in changed THEN TRUE ELSE UNCHANGED m_idx
    /\ IF "m_count" \in changed THEN TRUE ELSE UNCHANGED m_count
    /\ IF "m_alive" \in changed THEN TRUE ELSE UNCHANGED m_alive
    /\ IF "m_out" \in changed THEN TRUE ELSE UNCHANGED m_out
    /\ IF "replicas" \in changed THEN TRUE ELSE UNCHANGED replicas
    /\ IF "rlock" \in changed THEN TRUE ELSE UNCHANGED rlock
    /\ IF "storage" \in changed THEN TRUE ELSE UNCHANGED storage
    /\ IF "offset" \in changed THEN TRUE ELSE UNCHANGED <<propagation_offset, pending_writes, propagated>>
    /\ IF "acked" \in changed THEN TRUE ELSE UNCHANGED last_acked
    /\ IF "wait" \in changed THEN TRUE ELSE UNCHANGED <<wait_start, wait_need, wait_deadline>>
    /\ IF "applied" \in changed THEN TRUE ELSE UNCHANGED applied
    /\ IF "snapshot" \in changed THEN TRUE ELSE UNCHANGED snapshot_at
    /\ IF "closes" \in changed THEN TRUE ELSE UNCHANGED closes
    /\ IF "reset" \in changed THEN TRUE ELSE UNCHANGED reset
    /\ IF "stop" \in changed THEN TRUE ELSE UNCHANGED <<stop_pc, accept_pc, purger_pc>>
    /\ IF "parsing" \in changed THEN TRUE ELSE UNCHANGED parsing
    /\ IF "loader" \in changed THEN TRUE ELSE UNCHANGED loaderVars
    /\ IF "wire" \in changed THEN TRUE ELSE UNCHANGED wireVars
    /\ UNCHANGED <<peer_sends, cl_conn, storeVars, xaddVars>>
    /\ UNCHANGED <<clientVars, clock>>

\* Server.Start: rdb.LoadFile into the server's storage; its error is logged
\* and Start goes on to listen
LoadFile ==
    /\ rdb_pc = "load"
    /\ LET loaded == load(rdb_file, storage) IN
         /\ storage' = loaded.data
         /\ rdb_err' = loaded.err
    /\ rdb_pc' = "started"
    /\ UNCHANGED <<rdb_file, m_pc, len_in, len_pc, len_out>>
    /\ MasterUnchanged({"storage", "loader"})

\* Loader.readLength on what the reader holds
ReadLength ==
    /\ len_pc = "read"
    /\ len_out' = readLength(len_in)
    /\ len_pc' = "done"
    /\ UNCHANGED <<len_in, rdb_file, rdb_pc, rdb_err, m_pc>>
    /\ MasterUnchanged({"loader"})

\* the task's locals once the turn of the loop that set them is over
NoFrame == ArrayValue(<<>>)
Forget(c, pc) ==
    /\ m_cur' = [m_cur EXCEPT ![c] = IF pc \in {"read", "closing"} THEN NoFrame ELSE @]
    /\ m_resp' = [m_resp EXCEPT ![c] = IF pc \in {"read", "closing"} THEN OK ELSE @]

\* the reader task of a replica connection takes note of REPLCONF ACK
RecordAck(c, frame) ==
    IF m_isReplica[c] /\ IsAck(frame)
    THEN /\ last_acked' = [last_acked EXCEPT ![c] = AckedOffset(frame)]
         /\ pending_writes' = FALSE
    ELSE UNCHANGED <<last_acked, pending_writes>>

\* propagateCommand counts the frame it is about to write
CountPropagated(frame) ==
    /\ propagation_offset' = BumpOffset(propagation_offset, frame)
    /\ pending_writes' = TRUE

\* bytes of a peer that are no frame
Unparsed == "bytes"
Garbage(bytes) == [t |-> Unparsed, s |-> "", i |-> 0, a |-> bytes]

\* handleConnection: parser.Parse() fails on what the peer sent with an error
\* that is not io.EOF, having read the bytes up to the point of failure; the
\* error is written as a reply and the loop goes on with the next read
ParseFails(c, frame) ==
    /\ m_pc[c] = "read"
    /\ m_alive[c]
    /\ c # cl_conn
    /\ m_count < MaxFrames
    /\ CanParse(c)
    /\ parsing' = parsing \ {c}
    /\ frame \in Inputs(c)
    /\ frame.t = Unparsed
    /\ LET value == Parse(frame.a) IN
         /\ value.err \notin {"", EOF}
         /\ value.rest = <<>>
         /\ m_out' = [m_out EXCEPT ![c] =
                Append(@, Item("reply", ErrorValue("ERR " \o value.err),
                               ErrorValue("ERR " \o value.err)))]
    /\ m_count' = m_count + 1
    /\ UNCHANGED m_pc
    /\ MasterUnchanged({"m_out", "m_count", "parsing"})

\* handleConnection: parser.Parse() returns a command other than WAIT and
\* registry.HandleCommand runs it
HandleFrame(c, frame) ==
    /\ m_pc[c] = "read"
    /\ m_alive[c]
    /\ c = cl_conn \/ m_count < MaxFrames
    /\ CanParse(c)
    /\ parsing' = parsing \ {c}
    /\ frame \in Inputs(c)
    /\ frame.t # Unparsed
    /\ rdb_pc = "started"
    /\ ToUpper(CmdName(frame)) # "WAIT"
    /\ IsAck(frame) => m_isReplica[c]
    /\ LET done == HandleCommand(frame, storage, clock) IN
         /\ storage' = done.data
         /\ m_resp' = [m_resp EXCEPT ![c] = done.resp]
    /\ m_cur' = [m_cur EXCEPT ![c] = frame]
    /\ applied' = IF shouldPropagate(CmdName(frame)) /\ m_resp'[c].t # Error
                  THEN Append(applied, frame)
                  ELSE applied
    /\ m_count' = IF c = cl_conn THEN m_count ELSE m_count + 1
    /\ RecordAck(c, frame)
    /\ UNCHANGED <<propagation_offset, propagated>>
    /\ m_pc' = [m_pc EXCEPT ![c] = "respond"]
    /\ MasterUnchanged({"m_cur", "m_resp", "m_count", "storage", "applied",
                        "acked", "offset", "parsing"})

\* REPLCONF GETACK * written to every replica
BroadcastGetAck(out, reps, alive) ==
    [r \in Conns |->
        IF (\E k \in 1..Len(reps) : reps[k] = r) /\ alive[r]
        THEN Append(out[r], Item("getack", GetAckCmd, OK))
        ELSE out[r]]

\* handleConnection: parser.Parse() returns WAIT; WaitCommand.Execute checks
\* the arguments and calls WaitForReplicas
WaitBegin(c, frame) ==
    /\ m_pc[c] = "read"
    /\ m_alive[c]
    /\ m_count < MaxFrames
    /\ CanParse(c)
    /\ parsing' = parsing \ {c}
    /\ frame \in Inputs(c)
    /\ ToUpper(CmdName(frame)) = "WAIT"
    /\ LET args == GetArgs(frame)
           err == WaitArgsError(args)
           blocks == WaitBlocks(err, pending_writes)
           response == IF err # "" THEN ErrorValue(err)
                       ELSE IntegerValue(Len(replicas))
       IN
       /\ clock + ParseInt(args[2]).n <= MaxClock
       /\ m_cur' = [m_cur EXCEPT ![c] = frame]
       /\ m_count' = m_count + 1
       /\ m_resp' = [m_resp EXCEPT ![c] = response]
       /\ IF blocks
          THEN /\ wait_start' = [wait_start EXCEPT ![c] = propagation_offset]
               /\ wait_need' = [wait_need EXCEPT ![c] = ParseInt(args[1]).n]
               /\ wait_deadline' = [wait_deadline EXCEPT ![c] = clock + ParseInt(args[2]).n]
               /\ m_out' = BroadcastGetAck(m_out, replicas, m_alive)
               /\ m_pc' = [m_pc EXCEPT ![c] = "waiting"]
          ELSE /\ UNCHANGED <<wait_start, wait_need, wait_deadline, m_out>>
               /\ m_pc' = [m_pc EXCEPT ![c] = "respond"]
    /\ MasterUnchanged({"m_cur", "m_resp", "m_count", "wait", "m_out", "parsing"})

\* WaitForReplicas returns: enough replicas acknowledged, or the deadline passed
WaitReturn(c) ==
    /\ m_pc[c] = "waiting"
    /\ LET count == AckedCount(replicas, last_acked, wait_start[c]) IN
         /\ WaitDone(count, wait_need[c], clock, wait_deadline[c])
         /\ m_resp' = [m_resp EXCEPT ![c] = IntegerValue(count)]
    /\ wait_start' = [wait_start EXCEPT ![c] = 0]
    /\ wait_need' = [wait_need EXCEPT ![c] = 0]
    /\ wait_deadline' = [wait_deadline EXCEPT ![c] = 0]
    /\ m_pc' = [m_pc EXCEPT ![c] = "respond"]
    /\ MasterUnchanged({"m_resp", "wait"})

\* a task that goes back to reading without writing the reply
Respond_Silent(c) ==
    /\ m_pc[c] = "respond"
    /\ m_pc' = [m_pc EXCEPT ![c] = "read"]
    /\ Forget(c, "read")
    /\ MasterUnchanged({"m_cur", "m_resp"})

\* a task that goes on to propagate before it has written the reply
Respond_Unwritten(c) ==
    /\ m_pc[c] = "respond"
    /\ m_pc' = [m_pc EXCEPT ![c] =
                  IF Propagates(m_isReplica[c], CmdName(m_cur[c]), m_resp[c])
                  THEN "propagate" ELSE "read"]
    /\ Forget(c, m_pc'[c])
    /\ MasterUnchanged({"m_cur", "m_resp"})

\* handleConnection: the reply is written; PSYNC starts the promotion
Respond(c) ==
    /\ m_pc[c] = "respond"
    /\ LET cmdName == CmdName(m_cur[c])
           psync == /\ ToUpper(cmdName) = "PSYNC"
                    /\ m_resp[c].t = SimpleString
                    /\ HasPrefix(m_resp[c].s, "FULLRESYNC")
       IN
       IF ~m_alive[c]
       THEN /\ m_pc' = [m_pc EXCEPT ![c] = "closing"]
            /\ UNCHANGED m_out
       ELSE /\ m_out' = [m_out EXCEPT ![c] =
                            Append(@, Item(IF psync THEN "fullresync" ELSE "reply",
                                           m_resp[c], m_resp[c]))]
            /\ m_pc' = [m_pc EXCEPT ![c] =
                          IF psync THEN "sendRDBHeader"
                          ELSE IF Propagates(m_isReplica[c], cmdName, m_resp[c])
                               THEN "propagate"
                               ELSE "read"]
    /\ Forget(c, m_pc'[c])
    /\ MasterUnchanged({"m_out", "m_cur", "m_resp"})

\* handleConnection: the snapshot header "$<len>\r\n"
SendRDBHeader(c) ==
    /\ m_pc[c] = "sendRDBHeader"
    /\ IF ~m_alive[c]
       THEN /\ m_pc' = [m_pc EXCEPT ![c] = "closing"]
            /\ UNCHANGED m_out
       ELSE /\ m_out' = [m_out EXCEPT ![c] = Append(@, Item("rdbheader", RDBHeader, m_resp[c]))]
            /\ m_pc' = [m_pc EXCEPT ![c] = "sendRDBData"]
    /\ Forget(c, m_pc'[c])
    /\ MasterUnchanged({"m_out", "m_cur", "m_resp"})

\* a promotion that does not send the snapshot bytes
SendRDBData_Skipped(c) ==
    /\ m_pc[c] = "sendRDBData"
    /\ m_pc' = [m_pc EXCEPT ![c] = "addReplica"]
    /\ MasterUnchanged({})

\* handleConnection: the snapshot bytes, with no trailing CRLF
SendRDBData(c) ==
    /\ m_pc[c] = "sendRDBData"
    /\ IF ~m_alive[c]
       THEN /\ m_pc' = [m_pc EXCEPT ![c] = "closing"]
            /\ UNCHANGED <<m_out, snapshot_at>>
       ELSE /\ m_out' = [m_out EXCEPT ![c] = Append(@, Item("rdbdata", RDBData, m_resp[c]))]
            /\ snapshot_at' = [snapshot_at EXCEPT ![c] =
                                  IF @ = <<>> THEN <<Len(applied)>> ELSE @]
            /\ m_pc' = [m_pc EXCEPT ![c] = "addReplica"]
    /\ Forget(c, m_pc'[c])
    /\ MasterUnchanged({"m_out", "m_cur", "m_resp", "snapshot"})

\* handleConnection: isReplica = true and Server.addReplica, under the
\* writer side of replicasMu
AddReplica(c) ==
    /\ m_pc[c] = "addReplica"
    /\ rlock = {}
    /\ m_isReplica' = [m_isReplica EXCEPT ![c] = TRUE]
    /\ replicas' = Append(replicas, c)
    /\ m_pc' = [m_pc EXCEPT ![c] = "read"]
    /\ Forget(c, m_pc'[c])
    /\ MasterUnchanged({"m_isReplica", "replicas", "m_cur", "m_resp"})

\* Server.propagateCommand is entered: the frame's bytes are counted and
\* the reader side of replicasMu is taken
PropagateBegin(c) ==
    /\ m_pc[c] = "propagate"
    /\ CountPropagated(m_cur[c])
    /\ propagated' = Append(propagated, m_cur[c])
    /\ IF replicas = <<>>
       THEN /\ m_pc' = [m_pc EXCEPT ![c] = "read"]
            /\ UNCHANGED <<rlock, m_idx>>
       ELSE /\ rlock' = rlock \cup {c}
            /\ m_idx' = [m_idx EXCEPT ![c] = 1]
            /\ m_pc' = [m_pc EXCEPT ![c] = "propagating"]
    /\ Forget(c, m_pc'[c])
    /\ MasterUnchanged({"offset", "rlock", "m_idx", "m_cur", "m_resp"})

\* Server.propagateCommand: one turn of the loop over server.replicas; a
\* failed write is logged and the loop goes on
PropagateWrite(c) ==
    /\ m_pc[c] = "propagating"
    /\ LET r == replicas[m_idx[c]] IN
         IF m_alive[r]
         THEN m_out' = [m_out EXCEPT ![r] = Append(@, Item("propagated", m_cur[c], m_resp[c]))]
         ELSE UNCHANGED m_out
    /\ IF m_idx[c] = Len(replicas)
       THEN /\ rlock' = rlock \ {c}
            /\ m_idx' = [m_idx EXCEPT ![c] = 0]
            /\ m_pc' = [m_pc EXCEPT ![c] = "read"]
       ELSE /\ m_idx' = [m_idx EXCEPT ![c] = @ + 1]
            /\ UNCHANGED <<rlock, m_pc>>
    /\ Forget(c, m_pc'[c])
    /\ MasterUnchanged({"m_out", "rlock", "m_idx", "m_cur", "m_resp"})

\* the Write calls of one Encoder.Encode on the connection: encodeArray
\* writes the header and then encodes each element; every other value is one
\* call of Encoder.write
ArrayHeader(n) == [t |-> "header", s |-> "", i |-> n, a |-> <<>>]
RECURSIVE EncoderWrites(_)
RECURSIVE elementWrites(_)
elementWrites(array) ==
    IF array = <<>> THEN <<>>
    ELSE EncoderWrites(Head(array)) \o elementWrites(Tail(array))
EncoderWrites(value) ==
    IF value.t = Array THEN <<ArrayHeader(Len(value.a))>> \o elementWrites(value.a)
    ELSE <<value>>

\* one Write call on a replica's connection: its bytes, the frame they are
\* part of and the task that writes
Written(v, frame, c) == [v |-> v, frame |-> frame, by |-> c]

\* Server.propagateCommand with replica.encoder.Encode followed one Write
\* call at a time: the next call for the frame, and after the last one the
\* next turn of the loop over server.replicas.  A failed write ends Encode
PropagatePiece(c) ==
    /\ m_pc[c] = "propagating"
    /\ LET r == replicas[m_idx[c]]
           writes == EncoderWrites(m_cur[c])
           k == m_piece[c] + 1
           last == ~m_alive[r] \/ k = Len(writes)
       IN
       /\ wire' = IF m_alive[r]
                  THEN [wire EXCEPT ![r] = Append(@, Written(writes[k], m_cur[c], c))]
                  ELSE wire
       /\ m_out' = IF m_alive[r] /\ last
                   THEN [m_out EXCEPT ![r] = Append(@, Item("propagated", m_cur[c], m_resp[c]))]
                   ELSE m_out
       /\ m_piece' = [m_piece EXCEPT ![c] = IF last THEN 0 ELSE k]
       /\ IF ~last THEN UNCHANGED <<m_idx, rlock, m_pc>>
          ELSE IF m_idx[c] = Len(replicas)
          THEN /\ rlock' = rlock \ {c}
               /\ m_idx' = [m_idx EXCEPT ![c] = 0]
               /\ m_pc' = [m_pc EXCEPT ![c] = "read"]
          ELSE /\ m_idx' = [m_idx EXCEPT ![c] = @ + 1]
               /\ UNCHANGED <<rlock, m_pc>>
    /\ Forget(c, m_pc'[c])
    /\ MasterUnchanged({"m_out", "rlock", "m_idx", "m_cur", "m_resp", "wire"})

\* the connection goes down: the peer closed it and its reset has arrived
PeerClose(c) ==
    /\ m_alive[c]
    /\ closes < MaxCloses
    /\ m_alive' = [m_alive EXCEPT ![c] = FALSE]
    /\ closes' = closes + 1
    /\ UNCHANGED m_pc
    /\ MasterUnchanged({"m_alive", "closes"})

\* the connection goes down in a way that the next read reports as an error
\* other than io.EOF (connection reset by peer)
PeerReset(c) ==
    /\ m_alive[c]
    /\ closes < MaxCloses
    /\ m_alive' = [m_alive EXCEPT ![c] = FALSE]
    /\ reset' = reset \cup {c}
    /\ closes' = closes + 1
    /\ UNCHANGED m_pc
    /\ MasterUnchanged({"m_alive", "closes", "reset"})

\* handleConnection: parser.Parse() returns an error that is not io.EOF: the
\* result of encoder.Encode(ErrorValue("ERR ...")) is dropped and the loop
\* goes on. What the next read of the connection reports is the platform's
\* choice: the same error, or io.EOF
ReadError(c) ==
    /\ m_pc[c] = "read"
    /\ ~m_alive[c]
    /\ c \in reset
    /\ CanParse(c)
    /\ parsing' = parsing \ {c}
    /\ reset' \in {reset, reset \ {c}}
    /\ UNCHANGED m_pc
    /\ MasterUnchanged({"reset", "parsing"})

\* handleConnection: parser.Parse() returns io.EOF
ReadEOF(c) ==
    /\ m_pc[c] = "read"
    /\ ~m_alive[c]
    /\ c \notin reset
    /\ CanParse(c)
    /\ parsing' = parsing \ {c}
    /\ m_pc' = [m_pc EXCEPT ![c] = "closing"]
    /\ MasterUnchanged({"parsing"})

\* handleConnection: the select at the top of the loop finds server.shutdown
\* closed and the task returns
SeeShutdown(c) ==
    /\ m_pc[c] = "read"
    /\ ~CanParse(c)
    /\ m_pc' = [m_pc EXCEPT ![c] = "closing"]
    /\ MasterUnchanged({})

\* handleConnection's deferred function: conn.Close() and removeReplica,
\* under the writer side of replicasMu
CloseConnection(c) ==
    /\ m_pc[c] = "closing"
    /\ rlock = {}
    /\ replicas' = removeReplica(replicas, c)
    /\ m_pc' = [m_pc EXCEPT ![c] = "closed"]
    /\ MasterUnchanged({"replicas"})

\* Server.Stop: close(server.shutdown). A task that is reading is either
\* still before the select of this turn of its loop or already inside
\* parser.Parse()
StopSignal ==
    /\ stop_pc = "idle"
    /\ stop_pc' = "closeListener"
    /\ parsing' \in SUBSET {c \in Conns : m_pc[c] = "read"}
    /\ UNCHANGED <<m_pc, accept_pc, purger_pc>>
    /\ MasterUnchanged({"stop", "parsing"})

\* Server.Stop: server.listener.Close()
StopCloseListener ==
    /\ stop_pc = "closeListener"
    /\ stop_pc' = "wait"
    /\ UNCHANGED <<m_pc, accept_pc, purger_pc>>
    /\ MasterUnchanged({"stop"})

\* Server.acceptConnections: Accept fails on the closed listener, the select
\* finds server.shutdown closed and the loop returns
AcceptReturn ==
    /\ accept_pc = "accept"
    /\ stop_pc \in {"wait", "closeStorage", "returned"}
    /\ accept_pc' = "returned"
    /\ UNCHANGED <<m_pc, stop_pc, purger_pc>>
    /\ MasterUnchanged({"stop"})

\* Server.Stop: server.wg.Wait() returns when every connection task is done
StopWaited ==
    /\ stop_pc = "wait"
    /\ \A c \in Conns : m_pc[c] = "closed"
    /\ stop_pc' = "closeStorage"
    /\ UNCHANGED <<m_pc, accept_pc, purger_pc>>
    /\ MasterUnchanged({"stop"})

\* Server.Stop: server.storage.Close() closes the done channel, and Stop
\* returns
StopCloseStorage ==
    /\ stop_pc = "closeStorage"
    /\ stop_pc' = "returned"
    /\ UNCHANGED <<m_pc, accept_pc, purger_pc>>
    /\ MasterUnchanged({"stop"})

\* Storage.cleanupExpired: the select finds s.done closed and the task returns
PurgerExit ==
    /\ purger_pc = "running"
    /\ stop_pc = "returned"
    /\ purger_pc' = "exited"
    /\ UNCHANGED <<m_pc, stop_pc, accept_pc>>
    /\ MasterUnchanged({"stop"})

Stop == StopSignal \/ StopCloseListener \/ StopWaited \/ StopCloseStorage

\* the wall clock advances
Tick ==
    /\ clock < MaxClock
    /\ clock' = clock + 1
    /\ UNCHANGED <<clientVars, masterVars>>

MasterState ==
    /\ m_pc = [c \in Conns |-> "read"]
    /\ m_cur = [c \in Conns |-> NoFrame]
    /\ m_resp = [c \in Conns |-> OK]
    /\ m_isReplica = [c \in Conns |-> FALSE]
    /\ m_idx = [c \in Conns |-> 0]
    /\ m_count = 0
    /\ m_alive = [c \in Conns |-> TRUE]
    /\ m_out = [c \in Conns |-> <<>>]
    /\ replicas = <<>>
    /\ rlock = {}
    /\ storage = EmptyStorage
    /\ propagation_offset = 0
    /\ pending_writes = FALSE
    /\ last_acked = [c \in Conns |-> 0]
    /\ wait_start = [c \in Conns |-> 0]
    /\ wait_need = [c \in Conns |-> 0]
    /\ wait_deadline = [c \in Conns |-> 0]
    /\ applied = <<>>
    /\ snapshot_at = [c \in Conns |-> <<>>]
    /\ closes = 0
    /\ reset = {}
    /\ stop_pc = "idle"
    /\ accept_pc = "accept"
    /\ purger_pc = "running"
    /\ parsing = {}
    /\ propagated = <<>>
    /\ wire = [c \in Conns |-> <<>>]
    /\ m_piece = [c \in Conns |-> 0]

MasterInit ==
    /\ StoreIdle
    /\ peer_sends = [c \in Conns |-> {}]
    /\ cl_conn = "none"
    /\ MasterState

handleConnection(c) ==
    \/ \E frame \in Inputs(c) : HandleFrame(c, frame) \/ WaitBegin(c, frame)
    \/ WaitReturn(c)
    \/ Respond(c)
    \/ SendRDBHeader(c)
    \/ SendRDBData(c)
    \/ AddReplica(c)
    \/ PropagateBegin(c)
    \/ PropagateWrite(c)

\* clients that write, and a replica that attaches
Init ==
    /\ peer_sends = [c \in Conns |->
                        IF c \in ReplicaConns THEN {PsyncCmd}
                        ELSE IF c = "c1"
                             THEN {Cmd(<<"SET", "a", "1">>),
                                   Cmd(<<"SET", "a", "1", "PX", "0">>)}
                             ELSE {Cmd(<<"set", "a", "2">>)}]
    /\ cl_conn = "none"
    /\ StoreIdle
    /\ MasterState
    /\ ClientInit
    /\ clock = 0

Next ==
    \E c \in Conns :
        \/ \E frame \in Inputs(c) : HandleFrame(c, frame)
        \/ Respond(c)
        \/ SendRDBHeader(c)
        \/ SendRDBData(c)
        \/ AddReplica(c)
        \/ PropagateBegin(c)
        \/ PropagateWrite(c)
        \/ PeerClose(c)
        \/ ReadEOF(c)
        \/ CloseConnection(c)

Spec == Init /\ [][Next]_vars

\* one client that writes, one that waits, and a replica that attaches and
\* acknowledges
InitWait ==
    /\ peer_sends = [c \in Conns |->
                        IF c \in ReplicaConns THEN {PsyncCmd, AckCmd(0)}
                        ELSE IF c = "c1" THEN {Cmd(<<"SET", "a", "1">>)}
                             ELSE WaitFrames]
    /\ cl_conn = "none"
    /\ StoreIdle
    /\ MasterState
    /\ ClientInit
    /\ clock = 0

NextWait ==
    \/ \E c \in Conns : handleConnection(c)
    \/ Tick

SpecWait == InitWait /\ [][NextWait]_vars
InitReplica ==
    /\ ClientInit
    /\ MasterInit
    /\ clock = 0

SpecReplica == InitReplica /\ [][ClientNext]_vars

\* the replica above attached to this master over connection r1, and one
\* client that writes; nobody closes and nobody waits
InitSync ==
    /\ peer_sends = [c \in Conns |->
                        IF c = "c1" THEN {Cmd(<<"SET", "a", "1">>)} ELSE {}]
    /\ cl_conn = "r1"
    /\ StoreIdle
    /\ MasterState
    /\ ClientInit
    /\ clock = 0

NextSync ==
    \/ \E c \in Conns :
          \/ \E frame \in Inputs(c) : HandleFrame(c, frame)
          \/ Respond(c)
          \/ SendRDBHeader(c)
          \/ SendRDBData(c)
          \/ AddReplica(c)
          \/ PropagateBegin(c)
          \/ PropagateWrite(c)
    \/ Connect
    \/ sendPing
    \/ sendReplConfListeningPort
    \/ sendReplConfCapa
    \/ sendPsync
    \/ receiveRDB
    \/ \E frame \in StreamNext : StreamGarbage(frame) \/ StreamCommand(frame)

SpecSync == InitSync /\ [][NextSync]_vars



\* two clients that write and a replica that attaches, with the writes of
\* propagateCommand followed one Write call at a time
InitWire ==
    /\ peer_sends = [c \in Conns |->
                        IF c \in ReplicaConns THEN {PsyncCmd}
                        ELSE IF c = "c1" THEN {Cmd(<<"SET", "a", "1">>)}
                             ELSE {Cmd(<<"set", "a", "2">>)}]
    /\ cl_conn = "none"
    /\ StoreIdle
    /\ MasterState
    /\ ClientInit
    /\ clock = 0

NextWire ==
    \E c \in Conns :
        \/ \E frame \in Inputs(c) : HandleFrame(c, frame)
        \/ Respond(c)
        \/ SendRDBHeader(c)
        \/ SendRDBData(c)
        \/ AddReplica(c)
        \/ PropagateBegin(c)
        \/ PropagatePiece(c)

SpecWire == InitWire /\ [][NextWire]_vars


\* two connections that send XADD on one key with explicit IDs
XAddIDs == {StreamID("0", "0"), StreamID("1", "1"), StreamID("1", "2")}

InitXAdd ==
    /\ StoreIdle
    /\ peer_sends = [c \in Conns |-> {}]
    /\ cl_conn = "none"
    /\ MasterState
    /\ ClientInit
    /\ clock = 0

NextXAdd ==
    \E c \in XAddTasks :
        \/ \E id \in XAddIDs : XAddGet(c, id)
        \/ XAddCreate(c)
        \/ XAddParse(c)
        \/ XAddEntry(c)
        \/ XAddReturn(c)

SpecXAdd == InitXAdd /\ [][NextXAdd]_vars

\* a reader that holds a length: one byte, two bytes, or the marker of the
\* 32-bit form and what follows it
LengthInputs ==
    {<<>>} \cup {<<b>> : b \in Bytes} \cup {<<b, c>> : b \in Bytes, c \in Bytes}
           \cup {<<128, 0, 0, b, c>> : b \in {0, 1}, c \in {0, 255}}

InitLength ==
    /\ len_in \in LengthInputs
    /\ len_pc = "read"
    /\ len_out = LengthRead(0, "", <<>>)
    /\ rdb_file = NoFile
    /\ rdb_pc = "started"
    /\ rdb_err = ""
    /\ CodecIdle
    /\ st_data = [key \in StoreKeys |-> NoEntry]
    /\ st_task = [t \in StoreTasks |-> IdleTask]
    /\ st_last = [key \in StoreKeys |-> NeverSet]
    /\ StreamIdle
    /\ peer_sends = [c \in Conns |-> {}]
    /\ cl_conn = "none"
    /\ MasterState
    /\ ClientInit
    /\ clock = 0

NextLength == ReadLength

SpecLength == InitLength /\ [][NextLength]_vars

\* a replica that attaches, one client that writes, and connections that go
\* down either way; every task that can take a step eventually takes it
InitClose ==
    /\ peer_sends = [c \in Conns |->
                        IF c \in ReplicaConns THEN {PsyncCmd}
                        ELSE IF c = "c1" THEN {Cmd(<<"SET", "a", "1">>)}
                             ELSE {}]
    /\ cl_conn = "none"
    /\ StoreIdle
    /\ MasterState
    /\ ClientInit
    /\ clock = 0

TaskStep(c) ==
    \/ Respond(c)
    \/ SendRDBHeader(c)
    \/ SendRDBData(c)
    \/ AddReplica(c)
    \/ PropagateBegin(c)
    \/ PropagateWrite(c)
    \/ ReadEOF(c)
    \/ CloseConnection(c)

NextClose ==
    \E c \in Conns :
        \/ \E frame \in Inputs(c) : HandleFrame(c, frame)
        \/ TaskStep(c)
        \/ ReadError(c)
        \/ PeerClose(c)
        \/ PeerReset(c)

\* two callers of one store, the purger and the clock
InitStore ==
    /\ StoreIdle
    /\ peer_sends = [c \in Conns |-> {}]
    /\ cl_conn = "none"
    /\ MasterState
    /\ ClientInit
    /\ clock = 0

NextStore ==
    \/ \E t \in StoreTasks, key \in StoreKeys :
          \/ \E value \in StoreValues,
                expiry \in {NoExpiry} \cup {ExpiryAt(at) : at \in clock..MaxClock} :
                StSet(t, key, value, expiry)
          \/ StDelete(t, key)
          \/ \E op \in {"GET", "TYPE"} : StGetLook(t, op, key)
          \/ StGetDelete(t)
          \/ StKeys(t, <<Star>>)
          \/ StReturn(t)
    \/ StPurge
    \/ Tick

SpecStore == InitStore /\ [][NextStore]_vars

\* a store that holds one key that is always live and one key of any name
\* that may expire, and a caller that asks for KEYS with any pattern
MaxKeyLen == 4
MaxPatLen == 5
KeyNames == UNION {[1..n -> KeyChars] : n \in 0..MaxKeyLen}
Patterns == UNION {[1..n -> KeyChars \cup {Star}] : n \in 0..MaxPatLen}

InitKeys ==
    /\ \E key \in KeyNames, expiry \in {NoExpiry, ExpiryAt(0)} :
          st_data = [k \in {key, <<"b">>} |->
                        [present |-> TRUE, value |-> "1",
                         expiry |-> IF k = key THEN expiry ELSE NoExpiry]]
    /\ st_task = [t \in StoreTasks |-> IdleTask]
    /\ st_last = [k \in DOMAIN st_data |-> NeverSet]
    /\ StreamIdle
    /\ CodecIdle
    /\ LoaderIdle
    /\ peer_sends = [c \in Conns |-> {}]
    /\ cl_conn = "none"
    /\ MasterState
    /\ ClientInit
    /\ clock = 0

NextKeys ==
    \/ \E pattern \in Patterns : StKeys("t1", pattern)
    \/ StReturn("t1")
    \/ Tick

SpecKeys == InitKeys /\ [][NextKeys]_vars

\* XADD commands on one stream, with any IDs, as the clock advances
InitStream ==
    /\ StoreIdle
    /\ peer_sends = [c \in Conns |-> {}]
    /\ cl_conn = "none"
    /\ MasterState
    /\ ClientInit
    /\ clock = 0

NextStream ==
    \/ \E id \in RequestIDs : XAdd(id)
    \/ Tick

SpecStream == InitStream /\ [][NextStream]_vars

\* one parser and one encoder on any well-formed frame
InitCodec ==
    /\ cd_in \in WellFormedFrames
    /\ cd_pc = "parse"
    /\ cd_val = Failed("", <<>>)
    /\ cd_out = <<>>
    /\ st_data = [key \in StoreKeys |-> NoEntry]
    /\ st_task = [t \in StoreTasks |-> IdleTask]
    /\ st_last = [key \in StoreKeys |-> NeverSet]
    /\ StreamIdle
    /\ LoaderIdle
    /\ peer_sends = [c \in Conns |-> {}]
    /\ cl_conn = "none"
    /\ MasterState
    /\ ClientInit
    /\ clock = 0

NextCodec == CodecParse \/ CodecEncode

SpecCodec == InitCodec /\ [][NextCodec]_vars

\* one client that sends requests of every shape: frames that are no
\* commands, unknown names, wrong numbers of arguments, and good commands
DispatchFrames ==
    { SimpleStringValue("PING"), ArrayValue(<<>>),
      ArrayValue(<<IntegerValue(1), BulkStringValue("a")>>),
      Cmd(<<"FOO">>), Cmd(<<"sett", "a", "1">>),
      Cmd(<<"GET">>), Cmd(<<"get", "a", "b">>), Cmd(<<"PING", "a", "b">>),
      Cmd(<<"SET", "a", "1">>), Cmd(<<"GET", "a">>) }

InitDispatch ==
    /\ peer_sends = [c \in Conns |-> IF c = "c1" THEN DispatchFrames ELSE {}]
    /\ cl_conn = "none"
    /\ StoreIdle
    /\ MasterState
    /\ ClientInit
    /\ clock = 0

NextDispatch ==
    \E c \in Conns :
        \/ \E frame \in Inputs(c) : HandleFrame(c, frame)
        \/ Respond(c)
        \/ PropagateBegin(c)

SpecDispatch == InitDispatch /\ [][NextDispatch]_vars

\* a client that sends bytes that are no frame (an unknown type byte, a bulk
\* string whose length is no number) and a good command, and may close
GarbageFrames ==
    { Garbage(<<"X">>), Garbage(<<"$", "a", CR, LF>>) }

InitGarbage ==
    /\ peer_sends = [c \in Conns |->
                        IF c = "c1"
                        THEN GarbageFrames \cup {Cmd(<<"SET", "a", "1">>)}
                        ELSE {}]
    /\ cl_conn = "none"
    /\ StoreIdle
    /\ MasterState
    /\ ClientInit
    /\ clock = 0

NextGarbage ==
    \E c \in Conns :
        \/ \E frame \in Inputs(c) : HandleFrame(c, frame)
        \/ \E frame \in Inputs(c) : ParseFails(c, frame)
        \/ Respond(c)
        \/ PropagateBegin(c)
        \/ PeerClose(c)
        \/ ReadEOF(c)
        \/ CloseConnection(c)

SpecGarbage == InitGarbage /\ [][NextGarbage]_vars

\* one client that sends SET with and without options, as the clock advances
SetFrames ==
    { Cmd(<<"SET", "a", "1">>), Cmd(<<"SET", "a", "2", "PX", "1">>),
      Cmd(<<"SET", "a", "3", "px", "0">>), Cmd(<<"SET", "a", "4", "PX", "-1">>),
      Cmd(<<"SET", "a", "5", "EX", "1">>), Cmd(<<"SET", "a", "6", "EX", "0">>),
      Cmd(<<"SET", "a", "7", "XX">>), Cmd(<<"SET", "a", "8", "PX", "x">>) }

InitSet ==
    /\ peer_sends = [c \in Conns |-> IF c = "c1" THEN SetFrames ELSE {}]
    /\ cl_conn = "none"
    /\ StoreIdle
    /\ MasterState
    /\ ClientInit
    /\ clock = 0

NextSet ==
    \/ \E c \in Conns :
          \/ \E frame \in Inputs(c) : HandleFrame(c, frame)
          \/ Respond(c)
          \/ PropagateBegin(c)
    \/ Tick

SpecSet == InitSet /\ [][NextSet]_vars

\* a server started as a replica: its replication client, with any master
\* at the other end, and a client connection that it serves meanwhile. (The
\* commands of the stream and those of the client act on one Storage in the
\* code; here cl_storage is what the stream wrote and storage what the
\* client wrote.)
InitServe ==
    /\ peer_sends = [c \in Conns |->
                        IF c = "c1" THEN {Cmd(<<"SET", "a", "1">>)} ELSE {}]
    /\ cl_conn = "none"
    /\ StoreIdle
    /\ MasterState
    /\ ClientInit
    /\ clock = 0

NextServe ==
    \/ ClientNext
    \/ \E c \in Conns :
          \/ \E frame \in Inputs(c) : HandleFrame(c, frame)
          \/ Respond(c)
          \/ PropagateBegin(c)

SpecServe == InitServe /\ [][NextServe]_vars

\* a server that finds a snapshot file of any content when it starts, and a
\* client that reads from it afterwards
InitLoad ==
    /\ rdb_file \in RdbFiles
    /\ rdb_pc = "load"
    /\ rdb_err = ""
    /\ LengthIdle
    /\ CodecIdle
    /\ st_data = [key \in StoreKeys |-> NoEntry]
    /\ st_task = [t \in StoreTasks |-> IdleTask]
    /\ st_last = [key \in StoreKeys |-> NeverSet]
    /\ StreamIdle
    /\ peer_sends = [c \in Conns |-> IF c = "c1" THEN {Cmd(<<"GET", "a">>)} ELSE {}]
    /\ cl_conn = "none"
    /\ MasterState
    /\ ClientInit
    /\ clock = 0

NextLoad ==
    \/ LoadFile
    \/ \E c \in Conns :
          \/ \E frame \in Inputs(c) : HandleFrame(c, frame)
          \/ Respond(c)

SpecLoad == InitLoad /\ [][NextLoad]_vars

SpecClose ==
    InitClose /\ [][NextClose]_vars /\ \A c \in Conns : WF_vars(TaskStep(c))

\* the same clients and a shutdown; every task of the server that can take a
\* step eventually takes it, while the peers send and close as they like
NextStop ==
    \/ \E c \in Conns :
          \/ \E frame \in Inputs(c) : HandleFrame(c, frame)
          \/ TaskStep(c)
          \/ SeeShutdown(c)
          \/ PeerClose(c)
    \/ Stop
    \/ AcceptReturn
    \/ PurgerExit

SpecStop ==
    /\ InitClose
    /\ [][NextStop]_vars
    /\ \A c \in Conns : WF_vars(TaskStep(c) \/ SeeShutdown(c))
    /\ WF_vars(StopCloseListener \/ StopWaited \/ StopCloseStorage)
    /\ WF_vars(AcceptReturn)
    /\ WF_vars(PurgerExit)

-----------------------------------------------------------------------------
(* The replica's handshake and offset *)

HandshakeRequests == <<PingCmd, ListeningPortCmd, CapaCmd, PsyncCmd>>
ExpectedReplies == <<Pong, OK, OK>>

\* C1: the replica sends PING, REPLCONF listening-port <port>, REPLCONF capa
\* psync2 and PSYNC ? -1 in this order and nothing else before the snapshot
\* read; each request after the first is sent only once the expected reply
\* to the one before it (+PONG, +OK, +OK) was received; and the snapshot
\* read starts only once a +FULLRESYNC <replid> <offset> reply was received.
C1_HandshakeOrder ==
    /\ \A k \in 1..Len(cl_sent) :
          /\ k <= 4 => cl_sent[k] = HandshakeRequests[k]
          /\ k > 4 => cl_rdb # "none"
          /\ k \in 2..4 => /\ Len(cl_rcvd) >= k - 1
                           /\ cl_rcvd[k - 1] = ExpectedReplies[k - 1]
    /\ Len(cl_rcvd) <= Len(cl_sent)
    /\ (cl_pc = "receiveRDB" \/ cl_rdb # "none") =>
          /\ Len(cl_sent) >= 4
          /\ Len(cl_rcvd) = 4
          /\ cl_rcvd[4].t = SimpleString
          /\ Len(Split(cl_rcvd[4].s)) = 3
          /\ Split(cl_rcvd[4].s)[1] = "FULLRESYNC"

\* the handshake went through and the snapshot was read
C1_Witness ==
    /\ cl_pc = "stream"
    /\ cl_rdb = "read"
    /\ cl_sent = HandshakeRequests
    /\ Len(cl_rcvd) = 4

\* C10: processed_offset is 0 when the snapshot transfer ends and from then
\* on is the sum of the encoded lengths of every frame consumed from the
\* master stream.
C10_ProcessedOffset ==
    cl_rdb # "none" =>
        cl_offset = SumByteLen(SelectSeq(cl_consumed, LAMBDA v : v.t # "raw"))

\* a frame that is no command was consumed after the snapshot
C10_Witness ==
    /\ cl_rdb # "none"
    /\ \E k \in 1..Len(cl_consumed) :
          cl_consumed[k].t # "raw" /\ ~IsCommand(cl_consumed[k])

-----------------------------------------------------------------------------
(* The master's replica set and write propagation *)

\* the kinds of what was written to a connection, and the frames of one kind
KindsOf(c) == [k \in 1..Len(m_out[c]) |-> m_out[c][k].kind]
FramesOfKind(c, kind) ==
    LET items == SelectSeq(m_out[c], LAMBDA it : it.kind = kind)
    IN [k \in 1..Len(items) |-> items[k].v]
InReplicaSet(c) == \E k \in 1..Len(replicas) : replicas[k] = c

\* sub is what is left of full when some of its elements are dropped
RECURSIVE IsSubSeq(_, _)
IsSubSeq(sub, full) ==
    IF sub = <<>> THEN TRUE
    ELSE IF full = <<>> THEN FALSE
    ELSE IF Head(sub) = Head(full) THEN IsSubSeq(Tail(sub), Tail(full))
    ELSE IsSubSeq(sub, Tail(full))

\* C2: a connection is in the replica set only if +FULLRESYNC, the "$10\r\n"
\* header and all 10 snapshot bytes were written to it before, in this
\* order; so no propagated command precedes the snapshot bytes on a
\* connection.
C2_SnapshotBeforeReplica ==
    \A c \in Conns :
        /\ InReplicaSet(c) =>
              \E i, j, k \in 1..Len(m_out[c]) :
                  /\ i < j /\ j < k
                  /\ m_out[c][i].kind = "fullresync"
                  /\ m_out[c][i].v = SimpleStringValue(FullResyncStr)
                  /\ m_out[c][j].kind = "rdbheader"
                  /\ m_out[c][j].v.s = "$10\r\n"
                  /\ m_out[c][k].kind = "rdbdata"
                  /\ Len(m_out[c][k].v.a) = 10
        /\ \A p \in 1..Len(m_out[c]) :
              m_out[c][p].kind = "propagated" =>
                  \E k \in 1..(p - 1) : m_out[c][k].kind = "rdbdata"

\* a replica was promoted and a write reached it
C2_Witness ==
    /\ replicas = <<"r1">>
    /\ KindsOf("r1") = <<"fullresync", "rdbheader", "rdbdata", "propagated">>

\* C3: a replica receives the write commands in the order the master
\* applied them to its storage.
C3_PropagationOrder ==
    \A r \in Conns : IsSubSeq(FramesOfKind(r, "propagated"), applied)

\* two clients wrote the key and the replica received both writes
C3_Witness ==
    /\ Len(applied) = 2
    /\ applied[1] # applied[2]
    /\ Len(FramesOfKind("r1", "propagated")) = 2

\* C4: every write command of a client that succeeded is propagated: once
\* its task is past the propagation step, the frame was handed to
\* propagateCommand. (No replica peer of the model sends a write.)
C4_WritePropagated ==
    Len(applied) =
        Len(propagated)
        + Cardinality({c \in Conns :
                         /\ m_pc[c] \in {"respond", "propagate"}
                         /\ ~m_isReplica[c]
                         /\ shouldPropagate(CmdName(m_cur[c]))
                         /\ m_resp[c].t # Error})

\* a write succeeded and its reply could not be written
C4_Witness ==
    \E c \in ClientConns :
        /\ m_pc[c] = "closing"
        /\ Len(applied) = 1
        /\ m_out[c] = <<>>

\* C5: a command whose reply is an error frame is written to no replica,
\* and propagateCommand, whose calls are what propagation_offset counts,
\* is called only with write commands that succeeded.
C5_ErrorsNotPropagated ==
    /\ \A r \in Conns : \A k \in 1..Len(m_out[r]) :
          m_out[r][k].kind = "propagated" =>
              /\ m_out[r][k].resp.t # Error
              /\ \E a \in 1..Len(applied) : applied[a] = m_out[r][k].v
    /\ \A k \in 1..Len(propagated) :
          \E a \in 1..Len(applied) : applied[a] = propagated[k]
    /\ Len(propagated) <= Len(applied)

\* with a replica attached, a client's SET got through and its next SET,
\* with expiry 0, was answered by an error
C5_Witness ==
    /\ replicas = <<"r1">>
    /\ m_alive["r1"]
    /\ m_pc["c1"] = "read"
    /\ Len(m_out["c1"]) = 2
    /\ m_out["c1"][1].v = OK
    /\ m_out["c1"][2].v = ErrorValue(ErrInvalidExpireTime)
    /\ FramesOfKind("r1", "propagated") = <<Cmd(<<"SET", "a", "1">>)>>

-----------------------------------------------------------------------------
(* WAIT *)

IsWait(v) == IsCommand(v) /\ ToUpper(GetCommand(v)) = "WAIT"

\* the replicas whose last acknowledged offset is at least offset
Acknowledged(offset) ==
    Cardinality({k \in 1..Len(replicas) : last_acked[replicas[k]] >= offset})

\* a task takes a WAIT with good arguments from its connection
TakesWait(c) ==
    /\ m_pc[c] = "read"
    /\ m_pc'[c] # "read"
    /\ IsWait(m_cur'[c])
    /\ m_resp'[c].t # Error

C7_WaitNoWrites ==
    [][\A c \in Conns :
         (TakesWait(c) /\ ~pending_writes) =>
             /\ m_pc'[c] = "respond"
             /\ m_resp'[c] = IntegerValue(Len(replicas))
             /\ m_out' = m_out
      ]_vars

\* with one replica attached and no write yet, WAIT 2 answers 1
C7_Witness ==
    \E c \in Conns :
        /\ m_pc[c] = "respond"
        /\ m_cur[c] = Cmd(<<"WAIT", "2", "1">>)
        /\ m_resp[c] = IntegerValue(1)
        /\ propagated = <<>>

\* the wall clock advances, and a WAIT that may return does
SpecWaitFair ==
    /\ InitWait
    /\ [][NextWait]_vars
    /\ WF_vars(Tick)
    /\ \A c \in Conns : WF_vars(WaitReturn(c))

\* C8: every WAIT that waits returns: when enough replicas have
\* acknowledged, or else when its deadline has come.
C8_WaitReturns ==
    \A c \in Conns : (m_pc[c] = "waiting") ~> (m_pc[c] # "waiting")

\* a WAIT 2 has reached its deadline with no replica having answered
C8_Witness ==
    \E c \in Conns :
        /\ m_pc[c] = "waiting"
        /\ wait_need[c] = 2
        /\ clock >= wait_deadline[c]
        /\ Acknowledged(wait_start[c]) = 0


\* ---------------------------------------------------------------------
\* the master has nothing in progress and the replica has taken everything
\* that was written to its connection
Quiescent ==
    /\ cl_conn \in Conns
    /\ \A c \in Conns : m_pc[c] = "read"
    /\ cl_pc = "stream"
    /\ StreamStart + Len(cl_consumed) = Len(m_out[cl_conn])

\* the replica was in the replica set for every propagation there was
SawEveryWrite ==
    /\ InReplicaSet(cl_conn)
    /\ FramesOfKind(cl_conn, "propagated") = propagated

\* C11: once the master has propagated its writes and nothing is in
\* progress, a healthy replica that was written every one of them and has
\* read all that was delivered has processed_offset = propagation_offset
C11_OffsetConvergence ==
    (Quiescent /\ SawEveryWrite) => cl_offset = propagation_offset

C11_Witness ==
    /\ Quiescent
    /\ SawEveryWrite
    /\ propagated # <<>>
    /\ cl_offset = propagation_offset

\* ---------------------------------------------------------------------
\* C12: when the write of a propagated command to a replica fails and
\* propagateCommand returns, that replica is no longer in the replica set
C12_FailedReplicaRemoved ==
    [][\A c \in Conns :
         (/\ m_pc[c] = "propagating"
          /\ ~m_alive[replicas[m_idx[c]]]
          /\ m_pc'[c] = "read")
         => \A k \in 1..Len(replicas') : replicas'[k] # replicas[m_idx[c]]]_vars

C12_Witness ==
    \E c \in Conns :
        /\ m_pc[c] = "propagating"
        /\ ~m_alive[replicas[m_idx[c]]]

\* ---------------------------------------------------------------------
\* C13: once a connection is down, whether its reads end with io.EOF or
\* with another error, its task terminates and the connection is out of the
\* replica set
C13_ClosedAndRemoved ==
    \A c \in Conns : (~m_alive[c]) ~> (m_pc[c] = "closed" /\ ~InReplicaSet(c))

C13_Witness ==
    \E c \in Conns :
        /\ ~m_alive[c]
        /\ m_isReplica[c]
        /\ m_pc[c] = "closed"
        /\ ~InReplicaSet(c)

\* ---------------------------------------------------------------------
\* the replies written on a connection, in the order of the writes
RepliesOn(c) ==
    LET items == SelectSeq(m_out[c], LAMBDA it : it.kind \in {"reply", "fullresync"})
    IN [k \in 1..Len(items) |-> items[k].v]

\* the reply the registry gives to a frame of the handshake or to SET a 1,
\* whatever the key space holds
ReplyTo(frame) == HandleCommand(frame, EmptyStorage, 0).resp

C15_ShutdownCompletes ==
    (stop_pc # "idle") ~>
        (/\ stop_pc = "returned"
         /\ accept_pc = "returned"
         /\ purger_pc = "exited"
         /\ \A c \in Conns : m_pc[c] = "closed")

C15_Witness ==
    /\ stop_pc = "returned"
    /\ accept_pc = "returned"
    /\ purger_pc = "exited"
    /\ \A c \in Conns : m_pc[c] = "closed"
    /\ applied # <<>>

\* ---------------------------------------------------------------------
\* what the last Set or Delete of a key leaves to be read at an instant
LastLive(key, now) ==
    /\ st_last[key].kind = "set"
    /\ ~(st_last[key].expiry.has /\ now > st_last[key].expiry.at)

\* C16: a GET that reads the store returns the value of the most recent Set
\* of the key if the key was not deleted since and its expiry has not
\* passed, and reports the key absent otherwise
C16_GetReturnsLastSet ==
    [][\A t \in StoreTasks :
         (/\ st_task[t].pc = "idle"
          /\ st_task'[t].pc = "done"
          /\ st_task'[t].op = "GET")
         => st_task'[t].ret =
              IF LastLive(st_task'[t].key, clock)
              THEN [NoResult EXCEPT !.found = TRUE,
                                    !.value = st_last[st_task'[t].key].value]
              ELSE NoResult]_vars

C16_Witness ==
    \E t \in StoreTasks :
        /\ st_task[t].pc = "done"
        /\ st_task[t].op = "GET"
        /\ st_task[t].ret.found
        /\ st_task[t].ret.value = st_last[st_task[t].key].value
        /\ LastLive(st_task[t].key, clock)

\* ---------------------------------------------------------------------
\* C17: when GET, TYPE or KEYS observes an entry past its expiry, the key is
\* reported absent and, once the observation is over, the entry is no longer
\* in the map
C17_ExpiryOnObservation ==
    [][\A t \in StoreTasks, key \in StoreKeys :
         /\ (/\ st_task[t].pc = "upgrade"
             /\ st_task[t].key = key
             /\ st_task'[t].pc = "done")
            => (~st_task'[t].ret.found /\ ~st_data'[key].present)
         /\ (/\ st_task[t].pc = "idle"
             /\ st_task'[t].pc = "done"
             /\ st_task'[t].op = "KEYS"
             /\ Expired(st_data[key], clock))
            => (key \notin st_task'[t].ret.keys /\ ~st_data'[key].present)]_vars

C17_Witness ==
    \E t \in StoreTasks :
        /\ st_task[t].pc = "done"
        /\ st_task[t].op \in {"GET", "TYPE"}
        /\ ~st_task[t].ret.found
        /\ st_last[st_task[t].key].kind = "set"
        /\ ~LastLive(st_task[t].key, clock)
        /\ ~st_data[st_task[t].key].present

\* ---------------------------------------------------------------------
\* what it is for a whole name to match a pattern in which * stands for any
\* run of characters and every other character for itself
RECURSIVE GlobMatch(_, _)
GlobMatch(pattern, name) ==
    IF pattern = <<>> THEN name = <<>>
    ELSE IF Head(pattern) = Star
    THEN \E k \in 0..Len(name) :
            GlobMatch(Tail(pattern), SubSeq(name, k + 1, Len(name)))
    ELSE /\ name # <<>>
         /\ Head(name) = Head(pattern)
         /\ GlobMatch(Tail(pattern), Tail(name))

IdMs(id) == ParseUint(id.ms).n
IdSeq(id) == ParseUint(id.seq).n
IdLess(id1, id2) ==
    IdMs(id1) < IdMs(id2) \/ (IdMs(id1) = IdMs(id2) /\ IdSeq(id1) < IdSeq(id2))

\* C19: whatever XADD commands ran, each entry of the stream has an ID
\* greater than the ID of the entry before it
C19_StreamMonotonic ==
    \A k \in 2..Len(xs_entries) : IdLess(xs_entries[k - 1], xs_entries[k])

C19_Witness ==
    /\ Len(xs_entries) = MaxEntries
    /\ \A k \in 2..Len(xs_entries) : IdLess(xs_entries[k - 1], xs_entries[k])
    /\ xs_last.id = AutoID

\* ---------------------------------------------------------------------
\* C20: an ID equal to 0-0 is rejected and is in no stream; an explicit ID
\* that is not greater than the last entry's is rejected; <ms>-* is given
\* the sequence last.seq+1 when last.ms = ms, else 0, or 1 when ms = 0 on an
\* empty stream; and the reply to an XADD that appends is the ID appended
C20_XAddRules ==
    /\ [](\A k \in 1..Len(xs_entries) :
             ~(IdMs(xs_entries[k]) = 0 /\ IdSeq(xs_entries[k]) = 0))
    /\ [][xs_last' # xs_last =>
          LET id == xs_last'.id
              empty == xs_entries = <<>>
              last == xs_entries[Len(xs_entries)]
              appended == xs_entries' # xs_entries
              new == xs_entries'[Len(xs_entries')]
              explicit == id # AutoID /\ id.seq # "*"
          IN
          /\ appended => xs_last'.resp = BulkStringValue(IDString(new))
          /\ (explicit /\ IdMs(id) = 0 /\ IdSeq(id) = 0) =>
                (~appended /\ xs_last'.resp = ErrorValue(ErrZeroID))
          /\ (explicit /\ ~empty /\ ~IdLess(last, id)
                /\ ~(IdMs(id) = 0 /\ IdSeq(id) = 0)) =>
                (~appended /\ xs_last'.resp = ErrorValue(ErrTopItem))
          /\ (id # AutoID /\ id.seq = "*" /\ appended) =>
                /\ IdMs(new) = IdMs(id)
                /\ IdSeq(new) = IF ~empty /\ IdMs(last) = IdMs(id)
                                THEN IdSeq(last) + 1
                                ELSE IF empty /\ IdMs(id) = 0 THEN 1 ELSE 0]_vars

C20_Witness ==
    /\ xs_entries = <<StreamID("1", "1"), StreamID("1", "2")>>
    /\ xs_last.id = StreamID("1", "*")
    /\ xs_last.resp = BulkStringValue("1-2")

-----------------------------------------------------------------------------
(* C21: codec round trip *)

\* C21: for every well-formed frame, the bytes the encoder writes for the
\* value the parser returned are the bytes that were parsed
C21_RoundTrip ==
    cd_pc = "encoded" => cd_out = cd_in

\* an array that holds an array and a null bulk string went through the
\* parser and the encoder and came out as it was
C21_Witness ==
    /\ cd_pc = "encoded"
    /\ cd_out = cd_in
    /\ cd_val.v.t = Array
    /\ Len(cd_val.v.a) = 2
    /\ cd_val.v.a[1].t = Array
    /\ Len(cd_val.v.a[1].a) = 2
    /\ cd_val.v.a[2] = Value(BulkString, NullMarkerBytes, 0, <<>>)

-----------------------------------------------------------------------------
(* C22: dispatch errors *)

\* the request is not a non-empty array that begins with a bulk string
BadShape(v) == ~(v.t = Array /\ Len(v.a) > 0 /\ v.a[1].t = BulkString)
UnknownNames == {"FOO", "sett"}
WrongCounts ==
    {Cmd(<<"GET">>), Cmd(<<"get", "a", "b">>), Cmd(<<"PING", "a", "b">>)}
DispatchError(v) ==
    IF BadShape(v) THEN "ERR invalid command format"
    ELSE IF v.a[1].s \in UnknownNames
    THEN "ERR unknown command '" \o v.a[1].s \o "'"
    ELSE IF v \in WrongCounts
    THEN "ERR wrong number of arguments for '"
         \o (IF v.a[1].s = "PING" THEN "ping" ELSE "get") \o "' command"
    ELSE ""

\* C22: a request that is no command, names no registered command or has a
\* number of arguments outside the command's limits gets the error of its
\* case and leaves the storage as it was, and once the error is written the
\* task reads the next frame of the connection
C22_DispatchErrors ==
    [][\A c \in Conns :
          /\ (m_pc[c] = "read" /\ m_pc'[c] = "respond"
                /\ DispatchError(m_cur'[c]) # "") =>
                /\ m_resp'[c] = ErrorValue(DispatchError(m_cur'[c]))
                /\ storage' = storage
                /\ applied' = applied
          /\ (m_pc[c] = "respond" /\ m_pc'[c] # "respond"
                /\ DispatchError(m_cur[c]) # "") =>
                /\ m_pc'[c] = "read"
                /\ m_out'[c] = Append(m_out[c],
                       Item("reply", ErrorValue(DispatchError(m_cur[c])),
                            ErrorValue(DispatchError(m_cur[c]))))
                /\ storage' = storage
                /\ propagated' = propagated]_vars

\* after a stored value, one request of each failing kind was answered with
\* its error, the value is still there and the task is reading again
C22_Witness ==
    /\ Len(m_out["c1"]) = 4
    /\ m_out["c1"][1].v = OK
    /\ m_out["c1"][2].v = ErrorValue("ERR invalid command format")
    /\ m_out["c1"][3].v = ErrorValue("ERR unknown command 'sett'")
    /\ m_out["c1"][4].v = ErrorValue("ERR wrong number of arguments for 'get' command")
    /\ storage["a"].present
    /\ m_pc["c1"] = "read"

-----------------------------------------------------------------------------
(* C23: codec errors and the connection *)

\* the parser of the connection has failed: the error was written to it
CodecErrors == {ErrUnknownType, ErrBulkLength, ErrArrayCount, ErrInvalidInteger}
CodecFailed(c) ==
    \E k \in 1..Len(m_out[c]) :
        \E e \in CodecErrors : m_out[c][k].v = ErrorValue("ERR " \o e)

\* C23: once the parser has failed on a connection with an error of the
\* codec, no further frame of that connection is parsed or executed: nothing
\* more is written to it, the storage is not changed on its behalf, and the
\* only steps its task takes are those that close it
C23_CodecErrorsFatal ==
    [][\A c \in Conns :
          CodecFailed(c) =>
              /\ m_out'[c] = m_out[c]
              /\ m_cur'[c] = m_cur[c]
              /\ m_pc'[c] # m_pc[c] => m_pc'[c] \in {"closing", "closed"}]_vars

\* the parser failed on a connection that is still up, and its task is at
\* the next read
C23_Witness ==
    /\ CodecFailed("c1")
    /\ m_alive["c1"]
    /\ m_pc["c1"] = "read"
    /\ ~storage["a"].present

-----------------------------------------------------------------------------
(* C24: the options of SET *)

\* what the options of a SET ask for: an error, or the time to live in
\* milliseconds (0: none)
SetAsks(args) ==
    IF Len(args) = 2 THEN [err |-> "", ttl |-> 0]
    ELSE IF Len(args) = 4 /\ ToUpper(args[3]) \in {"EX", "PX"}
    THEN LET n == ParseInt(args[4]) IN
         IF ~n.ok \/ n.n <= 0
         THEN [err |-> "ERR invalid expire time in set", ttl |-> 0]
         ELSE [err |-> "", ttl |-> IF ToUpper(args[3]) = "EX" THEN 1000 * n.n ELSE n.n]
    ELSE [err |-> "ERR syntax error", ttl |-> 0]

\* C24: a SET with an option other than EX and PX is answered ERR syntax
\* error, one with an expiry that is not positive ERR invalid expire time in
\* set, and both leave the key as it was; any other SET is answered +OK and
\* stores the value with the expiry now + the duration given
C24_SetOptions ==
    [][\A c \in Conns :
          (m_pc[c] = "read" /\ m_pc'[c] = "respond" /\ CmdName(m_cur'[c]) = "SET") =>
              LET args == GetArgs(m_cur'[c])
                  asks == SetAsks(args)
              IN IF asks.err # ""
                 THEN /\ m_resp'[c] = ErrorValue(asks.err)
                      /\ storage' = storage
                 ELSE /\ m_resp'[c] = OK
                      /\ storage'[args[1]].present
                      /\ storage'[args[1]].value = args[2]
                      /\ storage'[args[1]].expiry =
                            IF asks.ttl = 0 THEN NoExpiry
                            ELSE ExpiryAt(clock + asks.ttl)]_vars

\* a value was stored with PX 1, and a later SET with PX 0 was refused and
\* left the value and its expiry as they were
C24_Witness ==
    /\ Len(m_out["c1"]) = 1
    /\ m_out["c1"][1].v = OK
    /\ m_pc["c1"] = "respond"
    /\ m_cur["c1"] = Cmd(<<"SET", "a", "3", "px", "0">>)
    /\ m_resp["c1"].t = Error
    /\ storage["a"].present
    /\ storage["a"].value = "2"
    /\ storage["a"].expiry = ExpiryAt(1)

-----------------------------------------------------------------------------
(* C25: a handshake that fails *)

\* the k-th reply of the master is the one the handshake needs
ReplyExpected(k) ==
    IF k <= 3 THEN cl_rcvd[k] = ExpectedReplies[k]
    ELSE /\ cl_rcvd[k].t = SimpleString
         /\ Len(Split(cl_rcvd[k].s)) = 3
         /\ Split(cl_rcvd[k].s)[1] = "FULLRESYNC"
         /\ ParseInt(Split(cl_rcvd[k].s)[3]).ok

\* C25: when the handshake of the replica fails (no connection, a request
\* that cannot be written, a reply that is missing or is not the expected
\* one), nothing more is sent to the master, the snapshot is not read, the
\* stream loop is never entered, and the server goes on accepting and
\* serving its client connections
C25_HandshakeFailure ==
    /\ [](\A k \in 1..Len(cl_rcvd) :
             ~ReplyExpected(k) =>
                 /\ cl_pc = "failed"
                 /\ Len(cl_sent) = k)
    /\ [](cl_pc = "failed" =>
             /\ Len(cl_sent) <= 4
             /\ cl_rdb = "none"
             /\ cl_consumed = <<>>
             /\ cl_offset = 0
             /\ stop_pc = "idle"
             /\ accept_pc = "accept"
             /\ \A c \in Conns : CanParse(c) /\ m_pc[c] \notin {"closing", "closed"})
    /\ [][cl_pc = "failed" => UNCHANGED clientVars]_vars

\* the master answered PSYNC with +CONTINUE, the handshake failed there, and
\* the server has answered two commands of its client
C25_Witness ==
    /\ cl_pc = "failed"
    /\ cl_sent = HandshakeRequests
    /\ Len(cl_rcvd) = 4
    /\ cl_rcvd[4] = SimpleStringValue("CONTINUE")
    /\ Len(m_out["c1"]) = 2
    /\ m_pc["c1"] = "read"
    /\ storage["a"].present

-----------------------------------------------------------------------------
(* C26: a snapshot file that cannot be loaded *)

\* C26: whatever the snapshot file holds, the server starts; when loading
\* failed, no key of the file is in the storage, the keys read before the
\* failing record included
C26_FailedLoadLeavesEmpty ==
    /\ [](rdb_pc = "started" /\ rdb_err # "" =>
             \A key \in Keys : ~storage[key].present)
    /\ [][rdb_pc = "load" => rdb_pc' = "started"]_vars

\* a file with a wrong magic string: loading failed, the server started with
\* an empty storage and told its client so
C26_Witness ==
    /\ rdb_file.magic = "REDIX"
    /\ rdb_file.records = <<Record("VALUE", 0, "a", "1", 0), Record("EOF", 0, "", "", 0)>>
    /\ rdb_pc = "started"
    /\ rdb_err # ""
    /\ ~storage["a"].present
    /\ Len(m_out["c1"]) = 1
    /\ m_out["c1"][1].v = NullBulkString

-----------------------------------------------------------------------------
(* C27: the bytes of the master connection across the handshake, the        *)
(* snapshot and the stream                                                   *)

\* what the replica has taken from the connection, in the order it took it:
\* the replies of the handshake, the snapshot, the frames of the stream
TakenByReplica ==
    cl_rcvd \o (IF cl_rdb = "read" THEN <<RDBHeader, RDBData>> ELSE <<>>) \o cl_consumed

\* C27: what the replica takes from the connection of its master, first
\* through the parser of the handshake, then by raw reads of the snapshot,
\* then through the parser of the stream, is what the master wrote, in the
\* order written, nothing left out and nothing taken twice
C27_BufferHandoff ==
    cl_conn \in Conns =>
        /\ Len(TakenByReplica) <= Len(m_out[cl_conn])
        /\ \A k \in 1..Len(TakenByReplica) :
              TakenByReplica[k] = m_out[cl_conn][k].v

\* the reply to PSYNC arrived alone, the snapshot was read from the
\* connection, and the first propagated command was taken from the stream
C27_Witness ==
    /\ cl_conn = "r1"
    /\ cl_pc = "stream"
    /\ cl_rdb = "read"
    /\ Len(cl_consumed) = 1
    /\ Len(TakenByReplica) = 7
    /\ \A k \in 1..Len(TakenByReplica) : TakenByReplica[k] = m_out[cl_conn][k].v

-----------------------------------------------------------------------------
(* C28: REPLCONF GETACK on the replica: the ACK, then the offset *)

\* the bytes of the command frames among the first k frames taken from the
\* stream: the frames the loop hands to ProcessCommand
RECURSIVE CountedBefore(_)
CountedBefore(k) ==
    IF k = 0 THEN 0
    ELSE CountedBefore(k - 1)
           + (IF IsCommand(cl_consumed[k]) THEN ByteLen(cl_consumed[k]) ELSE 0)

IsGetAckAt(k) == IsCommand(cl_consumed[k]) /\ IsGetAck(cl_consumed[k])

\* the ACK each REPLCONF GETACK of the stream asks for: the offset counted
\* before that frame
RECURSIVE AcksDue(_)
AcksDue(k) ==
    IF k = 0 THEN <<>>
    ELSE IF IsGetAckAt(k) THEN Append(AcksDue(k - 1), AckCmd(CountedBefore(k - 1)))
    ELSE AcksDue(k - 1)

\* the REPLCONF ACK frames the replica wrote to its master
AcksSent ==
    SelectSeq(cl_sent, LAMBDA v : IsCommand(v) /\ Len(v.a) = 3 /\ v.a[2].s = "ACK")

-----------------------------------------------------------------------------
(* C29: what the master writes to a connection once it is a replica *)

\* what was written to connection c after the snapshot bytes, that is, after
\* the promotion: addReplica follows the snapshot bytes with no read between
AfterPromotion(c) ==
    LET ends == {k \in 1..Len(m_out[c]) : m_out[c][k].kind = "rdbdata"} IN
    IF ends = {} THEN <<>>
    ELSE LET first == CHOOSE k \in ends : \A j \in ends : k <= j
         IN SubSeq(m_out[c], first + 1, Len(m_out[c]))

\* C29: after the promotion of a connection the master writes to it only
\* propagated write commands and REPLCONF GETACK requests: no reply to a
\* frame read from it, such as +OK or an error, is written into the stream
\* the replica reads its commands from
C29_PropagationSink ==
    \A c \in Conns :
        \A k \in 1..Len(AfterPromotion(c)) :
            AfterPromotion(c)[k].kind \in {"propagated", "getack"}

\* a promoted connection that was written a propagated SET and a REPLCONF
\* GETACK and nothing else
C29_Witness ==
    \E c \in Conns :
        /\ m_isReplica[c]
        /\ Len(AfterPromotion(c)) = 2
        /\ AfterPromotion(c)[1].kind = "propagated"
        /\ AfterPromotion(c)[2].kind = "getack"

-----------------------------------------------------------------------------
(* C30: one Storage whose purger fires (st_data) and one whose ticker never  *)
(* fires (storage), given the same calls by one caller at the same instants  *)

\* the caller's call on the first Storage and the same call on the second
TwinKeyNames == {"a", "b"}
TwinCaller == "t1"
TwinOther == "t2"
GetResult(got) == [found |-> got.found, value |-> got.value, keys |-> {}]

TwinUnchanged ==
    /\ UNCHANGED <<xs_entries, xs_last, codecVars, clock>>
    /\ UNCHANGED <<clientVars, m_pc, m_cur, m_resp, m_isReplica, m_idx, m_count,
                   m_alive, m_out, replicas, rlock, propagation_offset,
                   pending_writes, last_acked, wait_start, wait_need,
                   wait_deadline, applied, snapshot_at, closes, reset, stop_pc, accept_pc,
                   purger_pc, parsing, peer_sends, cl_conn, propagated, loaderVars,
                wireVars, xaddVars>>

\* SET: Storage.Set on both
TwinSet(key, value, expiry) ==
    /\ st_task[TwinCaller].pc = "idle"
    /\ st_data' = StorageSet(st_data, key, value, expiry)
    /\ storage' = StorageSet(storage, key, value, expiry)
    /\ st_last' = [st_last EXCEPT ![key] =
                      [kind |-> "set", value |-> value, expiry |-> expiry]]
    /\ UNCHANGED st_task
    /\ TwinUnchanged

\* GET or TYPE: Storage.Get on both.  Where the purger runs it may take the
\* lock between the look and the delete; where it never runs nothing can
\* come between them
TwinGetLook(op, key) ==
    /\ st_task[TwinCaller].pc = "idle"
    /\ LET e == st_data[key]
           got == StorageGet(storage, key, clock)
       IN st_task' = [st_task EXCEPT
            ![TwinCaller] =
               IF ~e.present
               THEN [pc |-> "done", op |-> op, key |-> <<key>>, ret |-> NoResult]
               ELSE IF Expired(e, clock)
               THEN [pc |-> "upgrade", op |-> op, key |-> <<key>>, ret |-> NoResult]
               ELSE [pc |-> "done", op |-> op, key |-> <<key>>,
                     ret |-> [found |-> TRUE, value |-> e.value, keys |-> {}]],
            ![TwinOther] =
               [pc |-> "done", op |-> op, key |-> <<key>>, ret |-> GetResult(got)]]
    /\ storage' = StorageGet(storage, key, clock).data
    /\ UNCHANGED <<st_data, st_last>>
    /\ TwinUnchanged

TwinGetDelete ==
    /\ st_task[TwinCaller].pc = "upgrade"
    /\ st_data' = StorageDelete(st_data, st_task[TwinCaller].key[1])
    /\ st_task' = [st_task EXCEPT ![TwinCaller].pc = "done"]
    /\ UNCHANGED <<st_last, storage>>
    /\ TwinUnchanged

\* KEYS *: Storage.Keys on both; neither deletes
TwinKeys ==
    /\ st_task[TwinCaller].pc = "idle"
    /\ st_task' = [st_task EXCEPT
          ![TwinCaller] =
             [pc |-> "done", op |-> "KEYS", key |-> <<Star>>,
              ret |-> [NoResult EXCEPT !.keys = StorageKeys(st_data, <<Star>>, clock)]],
          ![TwinOther] =
             [pc |-> "done", op |-> "KEYS", key |-> <<Star>>,
              ret |-> [NoResult EXCEPT !.keys = StorageKeys(storage, <<Star>>, clock)]]]
    /\ UNCHANGED <<st_data, st_last, storage>>
    /\ TwinUnchanged

TwinReturn ==
    /\ st_task[TwinCaller].pc = "done"
    /\ st_task' = [st_task EXCEPT ![TwinCaller] = IdleTask, ![TwinOther] = IdleTask]
    /\ UNCHANGED <<st_data, st_last, storage>>
    /\ TwinUnchanged

InitTwin ==
    /\ CodecIdle
    /\ LoaderIdle
    /\ StreamIdle
    /\ st_data = [key \in TwinKeyNames |-> NoEntry]
    /\ storage = [key \in TwinKeyNames |-> NoEntry]
    /\ st_task = [t \in StoreTasks |-> IdleTask]
    /\ st_last = [key \in TwinKeyNames |-> NeverSet]
    /\ peer_sends = [c \in Conns |-> {}]
    /\ cl_conn = "none"
    /\ m_pc = [c \in Conns |-> "read"]
    /\ m_cur = [c \in Conns |-> NoFrame]
    /\ m_resp = [c \in Conns |-> OK]
    /\ m_isReplica = [c \in Conns |-> FALSE]
    /\ m_idx = [c \in Conns |-> 0]
    /\ m_count = 0
    /\ m_alive = [c \in Conns |-> TRUE]
    /\ m_out = [c \in Conns |-> <<>>]
    /\ replicas = <<>>
    /\ rlock = {}
    /\ propagation_offset = 0
    /\ pending_writes = FALSE
    /\ last_acked = [c \in Conns |-> 0]
    /\ wait_start = [c \in Conns |-> 0]
    /\ wait_need = [c \in Conns |-> 0]
    /\ wait_deadline = [c \in Conns |-> 0]
    /\ applied = <<>>
    /\ snapshot_at = [c \in Conns |-> <<>>]
    /\ closes = 0
    /\ reset = {}
    /\ stop_pc = "idle"
    /\ accept_pc = "accept"
    /\ purger_pc = "running"
    /\ parsing = {}
    /\ propagated = <<>>
    /\ wire = [c \in Conns |-> <<>>]
    /\ m_piece = [c \in Conns |-> 0]
    /\ ClientInit
    /\ clock = 0

NextTwin ==
    \/ \E key \in TwinKeyNames :
          \/ \E value \in StoreValues,
                expiry \in {NoExpiry} \cup {ExpiryAt(at) : at \in clock..MaxClock} :
                TwinSet(key, value, expiry)
          \/ \E op \in {"GET", "TYPE"} : TwinGetLook(op, key)
    \/ TwinGetDelete
    \/ TwinKeys
    \/ TwinReturn
    \/ StPurge
    \/ Tick

SpecTwin == InitTwin /\ [][NextTwin]_vars

\* TypeCommand.Execute on a store of strings
TypeReply(data, key, now) ==
    SimpleStringValue(IF StorageGet(data, key, now).found THEN "string" ELSE "none")

\* the replies a store would give now to GET and TYPE of each key and to
\* KEYS *
RepliesNow(data, now) ==
    [get |-> [key \in DOMAIN data |-> GetCommandExecute(<<key>>, data, now).resp],
     type |-> [key \in DOMAIN data |-> TypeReply(data, key, now)],
     keys |-> StorageKeys(data, <<Star>>, now)]

\* C30: after the same SET, GET, TYPE and KEYS calls at the same clock
\* readings, the Storage whose purger ran whenever it liked and the Storage
\* whose purger never ran have given the same result to the last call, and
\* give the same reply to whatever is asked next
C30_PurgeInvisible ==
    /\ st_task[TwinCaller].pc # "idle" =>
          st_task[TwinCaller].ret = st_task[TwinOther].ret
    /\ RepliesNow(st_data, clock) = RepliesNow(storage, clock)

\* the purger removed an expired entry that the other Storage still holds,
\* and KEYS * was then answered by both
C30_Witness ==
    /\ ~st_data["a"].present
    /\ storage["a"].present
    /\ st_last["a"].kind = "set"
    /\ st_task[TwinCaller].pc = "done"
    /\ st_task[TwinCaller].op = "KEYS"
    /\ st_task[TwinCaller].ret.keys = {"b"}
    /\ st_task[TwinOther].pc = "done"

-----------------------------------------------------------------------------
(* C31: the length of the snapshot format in its two-byte form *)

\* C31: when the first byte is 0x40..0x7F and a second byte follows,
\* readLength returns (first byte & 0x3F) * 256 + second byte
C31_Length14Bit ==
    (len_pc = "done" /\ Len(len_in) >= 2 /\ len_in[1] \in 64..127) =>
        /\ len_out.err = ""
        /\ len_out.n = (len_in[1] % 64) * 256 + len_in[2]

\* readLength has run on 0x40 0x05: the length is 5
C31_Witness ==
    /\ len_pc = "done"
    /\ len_in = <<64, 5>>
    /\ len_out = LengthRead(5, "", <<>>)

-----------------------------------------------------------------------------
(* C32: the frames on a replica's connection *)

\* the Write calls are those of whole frames, one frame after the other; of
\* the last frame a part may still be to come
RECURSIVE WholeFrames(_)
WholeFrames(written) ==
    IF written = <<>> THEN TRUE
    ELSE LET first == Head(written)
             writes == EncoderWrites(first.frame)
             n == IF Len(writes) < Len(written) THEN Len(writes) ELSE Len(written)
         IN /\ \A k \in 1..n : written[k] = Written(writes[k], first.frame, first.by)
            /\ WholeFrames(SubSeq(written, n + 1, Len(written)))

\* C32: what a replica's connection carries is one propagated frame after
\* the other, each whole, however the tasks that propagate are interleaved
C32_FramesWhole ==
    \A r \in Conns : WholeFrames(wire[r])

\* two tasks are inside propagateCommand at once: one has written half of
\* its frame, whole so far, and the other has not written yet
C32_Witness ==
    \E r \in ReplicaConns :
        /\ rlock = {"c1", "c2"}
        /\ Len(wire[r]) = 2
        /\ WholeFrames(wire[r])

-----------------------------------------------------------------------------
(* C33: Get on an expired entry next to a Set of the same key *)

\* C33: once a Set of a key without expiry has returned and no Set or Delete
\* of the key followed, a Get of the key returns the value set, whatever a
\* Get that had found the key expired does in between
C33_EvictionSparesFreshValue ==
    \A key \in StoreKeys :
        (st_last[key].kind = "set" /\ ~st_last[key].expiry.has) =>
            /\ StorageGet(st_data, key, clock).found
            /\ StorageGet(st_data, key, clock).value = st_last[key].value

\* a Get found the key expired and gave up the read lock, and a Set without
\* expiry has returned since: the value is there to be read
C33_Witness ==
    \E t \in StoreTasks, key \in StoreKeys :
        /\ st_task[t].pc = "upgrade"
        /\ st_task[t].key = key
        /\ st_last[key].kind = "set"
        /\ ~st_last[key].expiry.has
        /\ st_data[key].present
        /\ st_data[key].value = st_last[key].value

-----------------------------------------------------------------------------
(* C34: how often a connection is in server.replicas *)

TimesInReplicaSet(c) == Cardinality({k \in 1..Len(replicas) : replicas[k] = c})

\* C34: a connection is in the replica set at most once, and not at all once
\* its task has finished
C34_MembershipExact ==
    \A c \in Conns :
        /\ TimesInReplicaSet(c) <= 1
        /\ m_pc[c] = "closed" => TimesInReplicaSet(c) = 0

\* a connection that was promoted after its PSYNC, whose peer then
\* disconnected: its task has finished and the set is empty
C34_Witness ==
    \E c \in ReplicaConns :
        /\ m_isReplica[c]
        /\ m_pc[c] = "closed"
        /\ Len(SelectSeq(m_out[c], LAMBDA it : it.kind = "fullresync")) = 1
        /\ replicas = <<>>

-----------------------------------------------------------------------------
(* C35: writes executed between the snapshot and addReplica *)

SnapshotSent(r) == \E k \in 1..Len(m_out[r]) : m_out[r][k].kind = "rdbdata"
\* the writes that ran after the first n
RanAfter(n) == SubSeq(applied, n + 1, Len(applied))
IsSuffix(tail, full) ==
    /\ Len(tail) <= Len(full)
    /\ SubSeq(full, Len(full) - Len(tail) + 1, Len(full)) = tail
WritersIdle == \A c \in ClientConns : m_pc[c] = "read"

\* C35: when the snapshot has been sent to a replica before any write was
\* executed, every write executed from then on has been written to the
\* replica's connection by the time the task that executed it reads again
C35_NoWriteInTheGap ==
    \A r \in ReplicaConns :
        (SnapshotSent(r) /\ WritersIdle) =>
            IsSuffix(RanAfter(snapshot_at[r][1]), FramesOfKind(r, "propagated"))

\* the snapshot was sent, the connection was added, and the write executed
\* after that is on the replica's connection
C35_Witness ==
    \E r \in ReplicaConns :
        /\ SnapshotSent(r)
        /\ InReplicaSet(r)
        /\ WritersIdle
        /\ Len(applied) = 2
        /\ snapshot_at[r] = <<0>>
        /\ FramesOfKind(r, "propagated") = applied

-----------------------------------------------------------------------------
(* C36: XADD from several connections on one key *)

StrictlyIncreasing(entries) ==
    \A i, j \in 1..Len(entries) :
        i < j => CompareStreamIDs(entries[i], entries[j]) < 0

\* C36: the IDs of every stream are strictly increasing in the order of its
\* entries, and when XADD has an ID to reply with, the entry is in the stream
\* stored under the key
C36_XAddAtomic ==
    /\ \A k \in 1..Len(xa_heap) : StrictlyIncreasing(xa_heap[k])
    /\ \A c \in XAddTasks :
          (xa_task[c].pc = "done" /\ xa_task[c].resp.t = BulkString) =>
              \E k \in 1..Len(EntriesStored) : EntriesStored[k] = xa_task[c].generatedID

\* one connection has added 1-1 and got its reply, the other is adding 1-2
\* to the same stream
C36_Witness ==
    /\ xa_key = 1
    /\ xa_heap = <<<<StreamID("1", "1"), StreamID("1", "2")>>>>
    /\ xa_task["c1"].pc = "done"
    /\ xa_task["c1"].generatedID = StreamID("1", "1")
    /\ xa_task["c2"].pc = "done"
    /\ xa_task["c2"].generatedID = StreamID("1", "2")

-----------------------------------------------------------------------------
(* C37: XADD that is answered with an error *)

XAddFailed(c) == xa_task[c].pc = "done" /\ xa_task[c].resp.t = Error
NoEntryAnywhere == \A k \in 1..Len(xa_heap) : xa_heap[k] = <<>>

\* C37: when XADD found the key absent and is answered with an error, and no
\* XADD has added an entry, the key is still absent; and the step at which
\* parseStreamID rejects the ID leaves the entries of every stream as they
\* were
C37_FailedXAddNoEffect ==
    /\ [](\A c \in XAddTasks :
            (XAddFailed(c) /\ ~xa_task[c].exists /\ NoEntryAnywhere) => xa_key = 0)
    /\ [][\A c \in XAddTasks :
            (xa_task[c].pc = "parse" /\ XAddFailed(c)') => xa_heap' = xa_heap]_vars

\* XADD with an ID that is not above the last entry of the stream under the
\* key is answered with an error, and the stream has the entry it had
C37_Witness ==
    /\ xa_key = 1
    /\ xa_heap = <<<<StreamID("1", "1")>>>>
    /\ XAddFailed("c1")
    /\ xa_task["c1"].exists
    /\ xa_task["c1"].id = StreamID("1", "1")
    /\ xa_task["c2"].pc = "idle"

-----------------------------------------------------------------------------
(* C38: the reply to a write and its propagation *)

LastWritten(c) == m_out[c][Len(m_out[c])]
InPropagation(c) == m_pc[c] \in {"propagate", "propagating"}

\* C38: a task that is about to propagate a command, or is propagating it,
\* has written the reply to it, which is not an error, as the last thing on
\* its client's connection; and a command is written to a replica only by a
\* task that is propagating it
C38_ReplyBeforePropagation ==
    /\ [](\A c \in Conns :
            InPropagation(c) =>
                /\ m_out[c] # <<>>
                /\ LastWritten(c) = Item("reply", m_resp[c], m_resp[c])
                /\ m_resp[c].t # Error)
    /\ [][\A r \in Conns :
            (/\ Len(m_out'[r]) = Len(m_out[r]) + 1
             /\ m_out'[r][Len(m_out'[r])].kind = "propagated")
            => \E c \in Conns :
                  /\ m_pc[c] = "propagating"
                  /\ m_cur[c] = m_out'[r][Len(m_out'[r])].v]_vars

\* the client has its +OK and the replica has the SET
C38_Witness ==
    /\ m_out["c1"] = <<Item("reply", OK, OK)>>
    /\ m_pc["c1"] = "read"
    /\ FramesOfKind("r1", "propagated") = <<Cmd(<<"SET", "a", "1">>)>>

-----------------------------------------------------------------------------
(* C39: what the replica writes to its master after the handshake *)

\* the array REPLCONF ACK <offset> for an offset the replica has had
IsAckFrame(v) ==
    /\ v.t = Array
    /\ Len(v.a) = 3
    /\ \E offset \in 0..cl_offset : v = AckCmd(offset)

GetAcksConsumed ==
    Len(SelectSeq(cl_consumed, LAMBDA v : IsCommand(v) /\ IsGetAck(v)))

\* C39: whatever the replica writes to its master after the four requests
\* of the handshake is a REPLCONF ACK <offset> array, and there are no more
\* of them than REPLCONF GETACK frames taken from the stream: the response
\* of no executed command is among them
C39_OnlyAcksToMaster ==
    /\ \A k \in 1..Len(cl_sent) :
          k > 4 => IsAckFrame(cl_sent[k])
    /\ Len(cl_sent) > 4 => Len(cl_sent) - 4 <= GetAcksConsumed

\* a SET and a PING were executed and a REPLCONF GETACK answered: the ACK is
\* all the replica wrote after the handshake
C39_Witness ==
    /\ cl_consumed = <<Cmd(<<"SET", "a", "1">>), PingCmd, GetAckCmd>>
    /\ cl_storage # EmptyStorage
    /\ Len(cl_sent) = 5
    /\ IsAckFrame(cl_sent[5])

\* ---------------------------------------------------------------------
\* the replica with a loop that keeps taking turns while it has one to take
SpecReplicaLive ==
    InitReplica /\ [][ClientNext]_vars /\ WF_vars(processReplicationStream)

\* C40: once the master connection is down, whatever its reads report from
\* then on (io.EOF or another error), processReplicationStream returns
C40_LoopReturns ==
    (cl_pc = "stream" /\ cl_link # "up") ~> (cl_pc = "closed")

C40_Witness ==
    /\ cl_pc = "closed"
    /\ cl_link = "eof"
    /\ cl_consumed # <<>>

====
